---- MODULE Spec2Model ----
(***************************************************************************)
(* A model of the compiler pipeline of juhanikat/compiler-project:         *)
(* tokens -> parse -> typecheck -> generate_ir.  The parser                 *)
(* (compiler/parser.py), the type checker (compiler/typechecker.py) and    *)
(* the IR generator (compiler/ir_generator.py) are functions of their      *)
(* input; they are modelled as recursive operators that thread the         *)
(* parser's `pos` / `last_consumed` (resp. the scope chain, resp. the      *)
(* instruction list, the reserved names and the symbol table) through      *)
(* their results, and are applied by the actions Parse, Typecheck and      *)
(* GenerateIr.  The                                                        *)
(* __eq__ methods of the AST nodes (compiler/my_ast.py) and of the IR      *)
(* instructions (compiler/my_ir.py) are applied by ExprEq and InstrEq.     *)
(***************************************************************************)
EXTENDS Integers, Sequences, FiniteSets, TLC

VARIABLES
    tokens,     \* list[Token]: the input of parse()
    pc,         \* position in the pipeline
    result,     \* outcome of parse(): [ok, node, pos, last]
    checked,    \* outcome of typecheck(): [ok, type, err, chain, typed]
    reserved_names, \* the reserved_names argument of generate_ir()
    generated,  \* outcome of generate_ir(): [ok, ins, err, var, reserved, names]
    eqL, eqR,   \* the two operands of an __eq__ call
    eqOut,      \* what the __eq__ call returned
    instructions, \* the argument of generate_assembly()
    assembly,   \* outcome of generate_assembly(): [ok, lines, text, err, locals]
    sym_table,  \* a chain of SymTable scopes, the innermost first
    sym_call    \* the last call of a SymTable method, with the chain before it

vars == <<tokens, pc, result, checked, reserved_names, generated, eqL, eqR, eqOut,
          instructions, assembly, sym_table, sym_call>>

(***************************************************************************)
(* Tokens (compiler/tokenizer.py).  A token text is an opaque string; the  *)
(* token type is what look_for_matches gives for it.  A source location    *)
(* (line, column) is abstracted to the index of the token in the list.     *)
(***************************************************************************)
LiteralTexts == {"0", "1", "2", "3", "4", "5", "true", "false"}

PunctuationTexts == {"(", ")", "{", "}", ",", ";", ":", "=>"}

OperatorTexts == {"==", "!=", "<=", ">=", "<", ">", "+", "-", "*", "/", "%", "="}

TokenTypeOf(text) ==
    IF text \in LiteralTexts THEN "literal"
    ELSE IF text \in PunctuationTexts THEN "punctuation"
    ELSE IF text \in OperatorTexts THEN "operator"
    ELSE "identifier"

Token(text, i) == [text |-> text, type |-> TokenTypeOf(text), source_loc |-> i]

tokenize(texts) == [i \in 1..Len(texts) |-> Token(texts[i], i)]

\* int(token.text) for the literal texts of the model
IntOf(text) ==
    CASE text = "0" -> 0
      [] text = "1" -> 1
      [] text = "2" -> 2
      [] text = "3" -> 3
      [] text = "4" -> 4
      [] text = "5" -> 5
      [] OTHER -> 0

(***************************************************************************)
(* Types (compiler/my_types.py)                                            *)
(***************************************************************************)
IntType == [kind |-> "Int"]
BoolType == [kind |-> "Bool"]
UnitType == [kind |-> "Unit"]
FunType(type_args, return_type) ==
    [kind |-> "FunType", type_args |-> type_args, return_type |-> return_type]
NoType == [kind |-> "None"]

(***************************************************************************)
(* AST nodes as the parser constructs them (compiler/my_ast.py).  A        *)
(* literal value is tagged with its Python type; source_loc None is 0.     *)
(***************************************************************************)
IntValue(n) == [t |-> "int", v |-> n]
BoolValue(b) == [t |-> "bool", v |-> IF b THEN 1 ELSE 0]
Str(s) == [kind |-> "str", s |-> s]

Literal(value, loc) == [kind |-> "Literal", value |-> value, loc |-> loc]
Identifier(name, loc) == [kind |-> "Identifier", name |-> name, loc |-> loc]
BinaryOp(left, op, right, loc) ==
    [kind |-> "BinaryOp", left |-> left, op |-> op, right |-> right, loc |-> loc]
UnaryOp(op, target, loc) ==
    [kind |-> "UnaryOp", op |-> op, target |-> target, loc |-> loc]
IfThen(if_expr, then_expr, loc) ==
    [kind |-> "IfThen", if_expr |-> if_expr, then_expr |-> then_expr, loc |-> loc]
IfThenElse(if_expr, then_expr, else_expr, loc) ==
    [kind |-> "IfThenElse", if_expr |-> if_expr, then_expr |-> then_expr,
     else_expr |-> else_expr, loc |-> loc]
WhileDo(condition, do_expr, loc) ==
    [kind |-> "WhileDo", condition |-> condition, do_expr |-> do_expr, loc |-> loc]
Function(name, params) ==
    [kind |-> "Function", name |-> name, params |-> params, loc |-> 0]
Block(expressions, returns_last, loc) ==
    [kind |-> "Block", expressions |-> expressions,
     returns_last |-> returns_last, loc |-> loc]
TopLevel(expressions, returns_last, loc) ==
    [kind |-> "TopLevel", expressions |-> expressions,
     returns_last |-> returns_last, loc |-> loc]
Variable(name, value, type, loc) ==
    [kind |-> "Variable", name |-> name, value |-> value, type |-> type, loc |-> loc]
EmptyExpression == [kind |-> "EmptyExpression", loc |-> 0]
ErrorNode == [kind |-> "Error", loc |-> 0]

(***************************************************************************)
(* The parser (compiler/parser.py).  Every parse_* operator takes the      *)
(* current `pos` and `last_consumed` text and returns                      *)
(* [ok, node, pos, last]; ok = FALSE stands for the raised Exception.      *)
(***************************************************************************)
left_associative_binary_operators ==
    << {"="},
       {"or"},
       {"and"},
       {"==", "!="},
       {"<", "<=", ">", ">="},
       {"+", "-"},
       {"*", "/", "%"} >>

Ok(node, pos, last) == [ok |-> TRUE, node |-> node, pos |-> pos, last |-> last]
Raise(pos, last) == [ok |-> FALSE, node |-> ErrorNode, pos |-> pos, last |-> last]

peek(pos) ==
    IF pos < Len(tokens)
    THEN tokens[pos + 1]
    ELSE [text |-> "", type |-> "end", source_loc |-> Len(tokens)]

\* The parse_* methods call one another recursively; every such call goes
\* through Call(method, args), which dispatches on the method's name.
RECURSIVE Call(_, _)

\* r is the result holding `left`; level is the 0-based index of the
\* precedence level the for loop is at
expression_loop(r, level) ==
    IF level >= Len(left_associative_binary_operators) THEN r
    ELSE IF peek(r.pos).text \in left_associative_binary_operators[level + 1]
    THEN LET operator == peek(r.pos).text
             right == Call("parse_term", << r.pos + 1, operator, level, FALSE >>)
         IN  IF ~right.ok THEN right
             ELSE Call("expression_loop", <<
                    Ok(BinaryOp(r.node, operator, right.node, r.node.loc),
                       right.pos, right.last),
                    level >>)
    ELSE Call("expression_loop", << r, level + 1 >>)

parse_expression(pos, last, allow_vars) ==
    LET left == Call("parse_term", << pos, last, 0, allow_vars >>)
    IN  IF ~left.ok THEN left ELSE Call("expression_loop", << left, 0 >>)

term_loop(r, level) ==
    IF level >= Len(left_associative_binary_operators) THEN r
    ELSE IF peek(r.pos).text \in left_associative_binary_operators[level + 1]
    THEN LET operator == peek(r.pos).text
             right == Call("parse_term", << r.pos + 1, operator, level, FALSE >>)
         IN  IF ~right.ok THEN right
             ELSE Call("term_loop", <<
                    Ok(BinaryOp(r.node, operator, right.node, r.node.loc),
                       right.pos, right.last),
                    level >>)
    ELSE Call("term_loop", << r, level + 1 >>)

parse_term(pos, last, level_index, allow_vars) ==
    LET left == Call("parse_factor", << pos, last, allow_vars >>)
    IN  IF ~left.ok THEN left
        ELSE Call("term_loop", << left,
                       IF left_associative_binary_operators[level_index + 1] /= {"="}
                       THEN level_index + 1
                       ELSE level_index >>)

parse_literal(pos, last) ==
    LET token == peek(pos)
    IN  IF token.type /= "literal" THEN Raise(pos, last)
        ELSE IF token.text = "true"
        THEN Ok(Literal(BoolValue(TRUE), token.source_loc), pos + 1, token.text)
        ELSE IF token.text = "false"
        THEN Ok(Literal(BoolValue(FALSE), token.source_loc), pos + 1, token.text)
        ELSE Ok(Literal(IntValue(IntOf(token.text)), token.source_loc),
                pos + 1, token.text)

parse_identifier(pos, last) ==
    LET token == peek(pos)
    IN  IF token.type /= "identifier" THEN Raise(pos, last)
        ELSE IF peek(pos + 1).text = "("
        THEN Call("parse_function", << pos + 1, token.text, token.text >>)
        ELSE Ok(Identifier(token.text, token.source_loc), pos + 1, token.text)

\* the `while peek().text == ","` loop of parse_function; r holds the
\* tuple of parameters parsed so far in r.node
function_params(r, name) ==
    IF peek(r.pos).text = ","
    THEN LET param == Call("parse_expression", << r.pos + 1, ",", FALSE >>)
         IN  IF ~param.ok THEN param
             ELSE Call("function_params", <<
                    Ok(Append(r.node, param.node), param.pos, param.last), name >>)
    ELSE IF peek(r.pos).text = ")"
    THEN Ok(Function(name, r.node), r.pos + 1, ")")
    ELSE Raise(r.pos, r.last)

parse_function(pos, last, name) ==
    IF peek(pos).text /= "(" THEN Raise(pos, last)
    ELSE IF peek(pos + 1).text /= ")"
    THEN LET first_param == Call("parse_expression", << pos + 1, "(", FALSE >>)
         IN  IF ~first_param.ok THEN first_param
             ELSE Call("function_params", <<
                    Ok(<<first_param.node>>, first_param.pos, first_param.last), name >>)
    ELSE Ok(Function(name, <<>>), pos + 2, ")")

parse_parenthesized(pos, last) ==
    IF peek(pos).text /= "(" THEN Raise(pos, last)
    ELSE LET expr == Call("parse_expression", << pos + 1, "(", FALSE >>)
         IN  IF ~expr.ok THEN expr
             ELSE IF peek(expr.pos).text /= ")" THEN Raise(expr.pos, expr.last)
             ELSE Ok(expr.node, expr.pos + 1, ")")

\* block_loop that takes the value of the block from its last expression
\* even when a `;` follows it: a faulty variant, for C3
block_loop_returns_always(expressions, pos, last, start_loc) ==
    IF peek(pos).text = "}"
    THEN Ok(Block(expressions, Len(expressions) > 0, start_loc), pos + 1, "}")
    ELSE LET expression == Call("parse_expression", << pos, last, TRUE >>)
         IN  IF ~expression.ok THEN expression
             ELSE LET exprs == Append(expressions, expression.node)
                      p == expression.pos
                  IN  IF peek(p).text /= ";"
                      THEN IF expression.last = "}" /\ peek(p).text /= "}"
                           THEN Call("block_loop", << exprs, p, expression.last, start_loc >>)
                           ELSE IF peek(p).text /= "}"
                           THEN Raise(p, expression.last)
                           ELSE Ok(Block(exprs, TRUE, start_loc), p + 1, "}")
                      ELSE Call("block_loop", << exprs, p + 1, ";", start_loc >>)

\* block_loop that asks for a `;` after every expression but the last, also
\* after one that ends with `}`: a faulty variant, for C5
block_loop_semicolon_always(expressions, pos, last, start_loc) ==
    IF peek(pos).text = "}"
    THEN Ok(Block(expressions, FALSE, start_loc), pos + 1, "}")
    ELSE LET expression == Call("parse_expression", << pos, last, TRUE >>)
         IN  IF ~expression.ok THEN expression
             ELSE LET exprs == Append(expressions, expression.node)
                      p == expression.pos
                  IN  IF peek(p).text /= ";"
                      THEN IF peek(p).text /= "}"
                           THEN Raise(p, expression.last)
                           ELSE Ok(Block(exprs, TRUE, start_loc), p + 1, "}")
                      ELSE Call("block_loop", << exprs, p + 1, ";", start_loc >>)

\* the `while peek().text != "}"` loop of parse_block and the
\* consume("}") / return after it
block_loop(expressions, pos, last, start_loc) ==
    IF peek(pos).text = "}"
    THEN Ok(Block(expressions, FALSE, start_loc), pos + 1, "}")
    ELSE LET expression == Call("parse_expression", << pos, last, TRUE >>)
         IN  IF ~expression.ok THEN expression
             ELSE LET exprs == Append(expressions, expression.node)
                      p == expression.pos
                  IN  IF peek(p).text /= ";"
                      THEN IF expression.last = "}" /\ peek(p).text /= "}"
                           THEN Call("block_loop", << exprs, p, expression.last, start_loc >>)
                           ELSE IF peek(p).text /= "}"
                           THEN Raise(p, expression.last)
                           ELSE Ok(Block(exprs, TRUE, start_loc), p + 1, "}")
                      ELSE Call("block_loop", << exprs, p + 1, ";", start_loc >>)

parse_block(pos, last) ==
    IF peek(pos).text /= "{" THEN Raise(pos, last)
    ELSE Call("block_loop", << <<>>, pos + 1, "{", peek(pos).source_loc >>)

parse_conditional(pos, last) ==
    IF peek(pos).text /= "if" THEN Raise(pos, last)
    ELSE LET if_loc == peek(pos).source_loc
             if_expr == Call("parse_expression", << pos + 1, "if", FALSE >>)
         IN  IF ~if_expr.ok THEN if_expr
             ELSE IF peek(if_expr.pos).text /= "then"
             THEN Raise(if_expr.pos, if_expr.last)
             ELSE LET then_expr == Call("parse_expression", << if_expr.pos + 1, "then", FALSE >>)
                  IN  IF ~then_expr.ok THEN then_expr
                      ELSE IF peek(then_expr.pos).text = "else"
                      THEN LET else_expr ==
                                 Call("parse_expression", << then_expr.pos + 1, "else", FALSE >>)
                           IN  IF ~else_expr.ok THEN else_expr
                               ELSE Ok(IfThenElse(if_expr.node, then_expr.node,
                                                  else_expr.node, if_loc),
                                       else_expr.pos, else_expr.last)
                      ELSE Ok(IfThen(if_expr.node, then_expr.node, if_loc),
                              then_expr.pos, then_expr.last)

parse_unary(pos, last) ==
    IF peek(pos).text \in {"not", "-"}
    THEN LET op_token == peek(pos)
             target == Call("parse_expression", << pos + 1, op_token.text, FALSE >>)
         IN  IF ~target.ok THEN target
             ELSE Ok(UnaryOp(op_token.text, target.node, op_token.source_loc),
                     target.pos, target.last)
    ELSE Raise(pos, last)

parse_while_do(pos, last) ==
    IF peek(pos).text /= "while" THEN Raise(pos, last)
    ELSE LET while_loc == peek(pos).source_loc
             condition == Call("parse_expression", << pos + 1, "while", FALSE >>)
         IN  IF ~condition.ok THEN condition
             ELSE IF peek(condition.pos).text /= "do"
             THEN Raise(condition.pos, condition.last)
             ELSE LET do_expr == Call("parse_expression", << condition.pos + 1, "do", FALSE >>)
                  IN  IF ~do_expr.ok THEN do_expr
                      ELSE Ok(WhileDo(condition.node, do_expr.node, while_loc),
                              do_expr.pos, do_expr.last)

\* parse_type of parse_variable_declaration: the node of the result is
\* the type
parse_type(pos, last) ==
    CASE peek(pos).text = "Int" -> Ok(IntType, pos + 1, "Int")
      [] peek(pos).text = "Bool" -> Ok(BoolType, pos + 1, "Bool")
      [] peek(pos).text = "Unit" -> Ok(UnitType, pos + 1, "Unit")
      [] OTHER -> Raise(pos, last)

RECURSIVE param_types_loop(_)
\* the `while peek().text == ","` loop over the parameter types; r.node
\* is the list param_types
param_types_loop(r) ==
    IF peek(r.pos).text = ","
    THEN LET param_type == parse_type(r.pos + 1, ",")
         IN  IF ~param_type.ok THEN param_type
             ELSE param_types_loop(
                    Ok(Append(r.node, param_type.node), param_type.pos, param_type.last))
    ELSE r

\* the `if peek().text == ":"` part of parse_variable_declaration: the
\* node of the result is var_type (NoType when there is no annotation)
parse_type_annotation(pos, last) ==
    IF peek(pos).text /= ":" THEN Ok(NoType, pos, last)
    ELSE IF peek(pos + 1).text = "("
    THEN LET first_type == parse_type(pos + 2, "(")
         IN  IF ~first_type.ok THEN first_type
             ELSE LET param_types ==
                        param_types_loop(
                          Ok(<<first_type.node>>, first_type.pos, first_type.last))
                  IN  IF ~param_types.ok THEN param_types
                      ELSE IF peek(param_types.pos).text /= ")"
                      THEN Raise(param_types.pos, param_types.last)
                      ELSE IF peek(param_types.pos + 1).text /= "=>"
                      THEN Raise(param_types.pos + 1, ")")
                      ELSE LET return_type == parse_type(param_types.pos + 2, "=>")
                           IN  IF ~return_type.ok THEN return_type
                               ELSE Ok(FunType(param_types.node, return_type.node),
                                       return_type.pos, return_type.last)
    ELSE parse_type(pos + 1, ":")

parse_variable_declaration(pos, last) ==
    IF peek(pos).text /= "var" THEN Raise(pos, last)
    ELSE LET var_loc == peek(pos).source_loc
         IN  IF peek(pos + 1).type /= "identifier" THEN Raise(pos + 1, "var")
             ELSE LET name == Call("parse_identifier", << pos + 1, "var" >>)
                  IN  IF ~name.ok THEN name
                      ELSE LET var_type == parse_type_annotation(name.pos, name.last)
                           IN  IF ~var_type.ok THEN var_type
                               ELSE IF peek(var_type.pos).text /= "="
                               THEN Raise(var_type.pos, var_type.last)
                               ELSE LET value ==
                                          Call("parse_expression", << var_type.pos + 1, "=", FALSE >>)
                                    IN  IF ~value.ok THEN value
                                        ELSE IF name.node.kind = "Function"
                                        THEN IF value.node.kind /= "Block"
                                             THEN Raise(value.pos, value.last)
                                             ELSE Ok(Variable(name.node, value.node,
                                                              var_type.node, var_loc),
                                                     value.pos, value.last)
                                        ELSE Ok(Variable(Str(name.node.name), value.node,
                                                         var_type.node, var_loc),
                                                value.pos, value.last)

parse_factor(pos, last, allow_vars) ==
    IF peek(pos).text = "(" THEN Call("parse_parenthesized", << pos, last >>)
    ELSE IF peek(pos).text = "{" THEN Call("parse_block", << pos, last >>)
    ELSE IF peek(pos).text = "if" THEN Call("parse_conditional", << pos, last >>)
    ELSE IF peek(pos).text \in {"not", "-"} THEN Call("parse_unary", << pos, last >>)
    ELSE IF peek(pos).text = "while" THEN Call("parse_while_do", << pos, last >>)
    ELSE IF allow_vars /\ peek(pos).text = "var"
    THEN Call("parse_variable_declaration", << pos, last >>)
    ELSE IF peek(pos).type = "literal" THEN Call("parse_literal", << pos, last >>)
    ELSE IF peek(pos).type = "identifier" THEN Call("parse_identifier", << pos, last >>)
    ELSE Raise(pos, last)

\* top_level_loop that returns without looking for the END token: a faulty
\* variant, for C4
top_level_loop_without_end_check(r, returns_last) ==
    IF peek(r.pos).text = ";"
    THEN IF peek(r.pos + 1).type /= "end"
         THEN LET expression == Call("parse_expression", << r.pos + 1, ";", TRUE >>)
              IN  IF ~expression.ok THEN expression
                  ELSE Call("top_level_loop",
                            << Ok(Append(r.node, expression.node),
                                  expression.pos, expression.last),
                               peek(expression.pos).type = "end" >>)
         ELSE Call("top_level_loop", << Ok(r.node, r.pos + 1, ";"), FALSE >>)
    ELSE IF Len(r.node) = 1 /\ returns_last THEN Ok(r.node[1], r.pos, r.last)
    ELSE Ok(TopLevel(r.node, returns_last, r.node[1].loc), r.pos, r.last)

\* the `while peek().text == ";"` loop of parse_top_level and the check
\* and return after it; r.node is the list `expressions`
top_level_loop(r, returns_last) ==
    IF peek(r.pos).text = ";"
    THEN IF peek(r.pos + 1).type /= "end"
         THEN LET expression == Call("parse_expression", << r.pos + 1, ";", TRUE >>)
              IN  IF ~expression.ok THEN expression
                  ELSE Call("top_level_loop",
                            << Ok(Append(r.node, expression.node),
                                  expression.pos, expression.last),
                               peek(expression.pos).type = "end" >>)
         ELSE Call("top_level_loop", << Ok(r.node, r.pos + 1, ";"), FALSE >>)
    ELSE IF peek(r.pos).type /= "end" THEN Raise(r.pos, r.last)
    ELSE IF Len(r.node) = 1 /\ returns_last THEN Ok(r.node[1], r.pos, r.last)
    ELSE Ok(TopLevel(r.node, returns_last, r.node[1].loc), r.pos, r.last)


Call(method, args) ==
    CASE method = "parse_expression" -> parse_expression(args[1], args[2], args[3])
      [] method = "expression_loop" -> expression_loop(args[1], args[2])
      [] method = "parse_term" -> parse_term(args[1], args[2], args[3], args[4])
      [] method = "term_loop" -> term_loop(args[1], args[2])
      [] method = "parse_factor" -> parse_factor(args[1], args[2], args[3])
      [] method = "parse_parenthesized" -> parse_parenthesized(args[1], args[2])
      [] method = "parse_block" -> parse_block(args[1], args[2])
      [] method = "block_loop" -> block_loop(args[1], args[2], args[3], args[4])
      [] method = "parse_conditional" -> parse_conditional(args[1], args[2])
      [] method = "parse_function" -> parse_function(args[1], args[2], args[3])
      [] method = "function_params" -> function_params(args[1], args[2])
      [] method = "parse_unary" -> parse_unary(args[1], args[2])
      [] method = "parse_variable_declaration" ->
            parse_variable_declaration(args[1], args[2])
      [] method = "parse_while_do" -> parse_while_do(args[1], args[2])
      [] method = "parse_literal" -> parse_literal(args[1], args[2])
      [] method = "parse_identifier" -> parse_identifier(args[1], args[2])
      [] method = "top_level_loop" -> top_level_loop(args[1], args[2])

parse_top_level ==
    LET first == Call("parse_expression", << 0, "", TRUE >>)
    IN  IF ~first.ok THEN first
        ELSE Call("top_level_loop",
                  << Ok(<<first.node>>, first.pos, first.last), TRUE >>)

parse ==
    IF Len(tokens) = 0 THEN Ok(EmptyExpression, 0, "")
    ELSE parse_top_level

(***************************************************************************)
(* The type checker (compiler/typechecker.py).  A TypeTable chain is a     *)
(* sequence of `locals` dictionaries, the innermost scope last.  get_type  *)
(* returns [ok, type, err, chain]: err is the class of the exception       *)
(* raised, chain the scope chain after the side effects of the node (when  *)
(* it raises, the chain at the raise).                                     *)
(***************************************************************************)
DefaultLocals ==
    ("+" :> FunType(<<IntType, IntType>>, IntType)) @@
    ("unary_-" :> FunType(<<IntType>>, IntType)) @@
    ("*" :> FunType(<<IntType, IntType>>, IntType)) @@
    ("/" :> FunType(<<IntType, IntType>>, IntType)) @@
    ("%" :> FunType(<<IntType, IntType>>, IntType)) @@
    ("<" :> FunType(<<IntType, IntType>>, IntType)) @@
    ("<=" :> FunType(<<IntType, IntType>>, IntType)) @@
    (">" :> FunType(<<IntType, IntType>>, IntType)) @@
    (">=" :> FunType(<<IntType, IntType>>, IntType)) @@
    ("or" :> FunType(<<BoolType, BoolType>>, BoolType)) @@
    ("and" :> FunType(<<BoolType, BoolType>>, BoolType)) @@
    ("unary_not" :> FunType(<<BoolType>>, BoolType)) @@
    ("while" :> UnitType) @@
    ("print_int" :> FunType(<<IntType>>, UnitType)) @@
    ("print_bool" :> FunType(<<BoolType>>, UnitType)) @@
    ("read_int" :> FunType(<<>>, IntType))

\* TypeTable(locals=None, parent=parent): `if locals:` fails for None, so
\* the new scope starts from the built-in signatures
TypeTable(parent_chain) == Append(parent_chain, DefaultLocals)

Typed(type, chain) == [ok |-> TRUE, type |-> type, err |-> "", chain |-> chain]
TypeRaise(err, chain) == [ok |-> FALSE, type |-> NoType, err |-> err, chain |-> chain]

\* TypeTable.add on the innermost scope of the chain
TypeTableAdd(chain, name, value) ==
    LET n == Len(chain)
    IN  IF name \in DOMAIN chain[n]
        THEN TypeRaise("Exception", chain)
        ELSE Typed(UnitType, [chain EXCEPT ![n] = (name :> value) @@ chain[n]])

\* a lookup that does not go to the parent scopes
TypeTableLookup_innermost_only(chain, name) ==
    IF Len(chain) = 0 THEN NoType
    ELSE IF name \in DOMAIN chain[Len(chain)] THEN chain[Len(chain)][name]
    ELSE NoType

RECURSIVE TypeTableLookup(_, _)
\* TypeTable.lookup from the innermost scope; NoType stands for None
TypeTableLookup(chain, name) ==
    IF Len(chain) = 0 THEN NoType
    ELSE IF name \in DOMAIN chain[Len(chain)] THEN chain[Len(chain)][name]
    ELSE TypeTableLookup(SubSeq(chain, 1, Len(chain) - 1), name)

IsBasicType(type) == type.kind \in {"Int", "Bool", "Unit"}

RECURSIVE get_type(_, _)
RECURSIVE get_types(_, _, _)
RECURSIVE add_params(_, _, _, _)

\* a loop that records the failure of an expression and goes on with the
\* expressions after it
get_types_keeps_going(expressions, i, r) ==
    IF i > Len(expressions) THEN r
    ELSE LET t == get_type(expressions[i], r.chain)
         IN  IF ~t.ok
             THEN TypeRaise(t.err, get_types(expressions, i + 1, Typed(r.type, t.chain)).chain)
             ELSE get_types(expressions, i + 1, Typed(Append(r.type, t.type), t.chain))

\* `for expr in node.expressions: t = get_type(expr, table)`; the type of
\* the result is the list of the types
get_types(expressions, i, r) ==
    IF i > Len(expressions) THEN r
    ELSE LET t == get_type(expressions[i], r.chain)
         IN  IF ~t.ok THEN t
             ELSE get_types(expressions, i + 1, Typed(Append(r.type, t.type), t.chain))

\* the loops that register the parameters of a function declaration:
\* type_table.add(param.name, type) for the i-th parameter on
\* (type_args = <<>> stands for the unannotated case, every type Int)
add_params(params, type_args, i, chain) ==
    IF i > Len(params) \/ (type_args /= <<>> /\ i > Len(type_args))
    THEN Typed(UnitType, chain)
    ELSE IF params[i].kind \notin {"Identifier", "Function"}
    THEN TypeRaise("AttributeError", chain)
    ELSE LET added == TypeTableAdd(chain, params[i].name,
                                   IF type_args = <<>> THEN IntType ELSE type_args[i])
         IN  IF ~added.ok THEN added
             ELSE add_params(params, type_args, i + 1, added.chain)

get_type(node, chain) ==
    CASE node.kind = "EmptyExpression" -> Typed(UnitType, chain)
      [] node.kind = "Literal" ->
            IF node.value.t = "bool" THEN Typed(BoolType, chain)
            ELSE IF node.value.t = "int" THEN Typed(IntType, chain)
            ELSE IF node.value.t = "None" THEN Typed(UnitType, chain)
            ELSE TypeRaise("TypeError", chain)
      [] node.kind = "Identifier" ->
            LET value == TypeTableLookup(chain, node.name)
            IN  IF value = NoType THEN TypeRaise("Exception", chain)
                ELSE Typed(value, chain)
      [] node.kind = "Function" ->
            LET value == TypeTableLookup(chain, node.name)
            IN  IF value = NoType THEN TypeRaise("Exception", chain)
                ELSE IF value.kind /= "FunType" THEN TypeRaise("Exception", chain)
                ELSE Typed(value.return_type, chain)
      [] node.kind = "Variable" ->
            IF node.value.kind = "Function"
            THEN \* the parser's Function node has no `expr`: after the
                 \* parameters are registered, node.value.expr fails
                 LET registered ==
                       IF node.type.kind /= "FunType"
                       THEN add_params(node.value.params, <<>>, 1, chain)
                       ELSE IF node.type.type_args = <<>>
                       THEN Typed(UnitType, chain)
                       ELSE add_params(node.value.params, node.type.type_args, 1, chain)
                 IN  IF ~registered.ok THEN registered
                     ELSE TypeRaise("AttributeError", registered.chain)
            ELSE LET value_type == get_type(node.value, chain)
                 IN  IF ~value_type.ok THEN value_type
                     ELSE IF node.name.kind /= "str"
                     THEN \* a Function node as dictionary key is unhashable
                          TypeRaise("TypeError", value_type.chain)
                     ELSE LET added == TypeTableAdd(value_type.chain, node.name.s,
                                                    value_type.type)
                          IN  IF ~added.ok THEN added
                              ELSE Typed(UnitType, added.chain)
      [] node.kind = "BinaryOp" ->
            LET left_type == get_type(node.left, chain)
            IN  IF ~left_type.ok THEN left_type
                ELSE LET right_type == get_type(node.right, left_type.chain)
                     IN  IF ~right_type.ok THEN right_type
                         ELSE LET c == right_type.chain
                                  fun_type == TypeTableLookup(c, node.op)
                              IN  IF node.op = "==" /\ left_type.type /= right_type.type
                                  THEN TypeRaise("TypeError", c)
                                  ELSE IF node.op = "!="
                                  THEN IF left_type.type /= right_type.type
                                       THEN TypeRaise("TypeError", c)
                                       ELSE \* leaves the match: "No match"
                                            TypeRaise("Exception", c)
                                  ELSE IF fun_type.kind /= "FunType"
                                  THEN TypeRaise("Exception", c)
                                  ELSE IF Len(fun_type.type_args) < 1
                                  THEN TypeRaise("IndexError", c)
                                  ELSE IF left_type.type.kind /= fun_type.type_args[1].kind
                                  THEN TypeRaise("TypeError", c)
                                  ELSE IF Len(fun_type.type_args) < 2
                                  THEN TypeRaise("IndexError", c)
                                  ELSE IF right_type.type.kind /= fun_type.type_args[2].kind
                                  THEN TypeRaise("TypeError", c)
                                  ELSE Typed(fun_type.return_type, c)
      [] node.kind = "IfThenElse" ->
            LET t1 == get_type(node.if_expr, chain)
            IN  IF ~t1.ok THEN t1
                ELSE IF t1.type.kind /= "Bool" THEN TypeRaise("Exception", t1.chain)
                ELSE LET t2 == get_type(node.then_expr, t1.chain)
                     IN  IF ~t2.ok THEN t2
                         ELSE LET t3 == get_type(node.else_expr, t2.chain)
                              IN  IF ~t3.ok THEN t3
                                  ELSE IF t2.type /= t3.type
                                  THEN TypeRaise("Exception", t3.chain)
                                  ELSE Typed(t2.type, t3.chain)
      [] node.kind = "WhileDo" -> Typed(UnitType, chain)
      [] node.kind = "FunctionCall" ->
            LET value == TypeTableLookup(chain, node.name)
            IN  IF value.kind /= "FunType" THEN TypeRaise("Exception", chain)
                ELSE Typed(value.return_type, chain)
      [] node.kind = "Block" ->
            LET block_exprs == get_types(node.expressions, 1,
                                         Typed(<<>>, TypeTable(chain)))
            IN  IF ~block_exprs.ok THEN block_exprs
                ELSE LET outer == SubSeq(block_exprs.chain, 1, Len(chain))
                     IN  IF node.returns_last
                         THEN LET return_type == block_exprs.type[Len(block_exprs.type)]
                              IN  IF ~IsBasicType(return_type)
                                  THEN TypeRaise("Exception", outer)
                                  ELSE Typed(return_type, outer)
                         ELSE Typed(UnitType, outer)
      [] node.kind = "TopLevel" ->
            LET top_exprs == get_types(node.expressions, 1, Typed(<<>>, chain))
            IN  IF ~top_exprs.ok THEN top_exprs
                ELSE IF node.returns_last
                THEN Typed(top_exprs.type[Len(top_exprs.type)], top_exprs.chain)
                ELSE Typed(UnitType, top_exprs.chain)
      [] OTHER -> TypeRaise("Exception", chain)

typecheck(node) == get_type(node, TypeTable(<<>>))

(***************************************************************************)
(* The pipeline                                                            *)
(***************************************************************************)
\* the names of interpreter.DEFAULT_LOCALS, the reserved names generate_ir
\* takes when its argument is None
DEFAULT_LOCALS ==
    {"+", "-", "unary_-", "*", "/", "%", "<", "<=", ">", ">=", "==", "!=",
     "or", "and", "unary_not", "while", "print_int", "print_bool", "read_int",
     "print_int_params", "print_bool_params", "read_int_params"}

\* generate_assembly() has not been called
NotAssembled ==
    [ok |-> FALSE, lines |-> <<>>, text |-> "", err |-> "not run",
     locals |-> [var_to_location |-> <<>>, stack_used |-> 0]]

\* no method of a SymTable has been called
NoCall ==
    [method |-> "", scope |-> 0, name |-> "", value |-> 0, before |-> <<>>,
     ok |-> FALSE, found |-> FALSE, returned |-> 0]

NotGenerated ==
    [ok |-> FALSE, ins |-> <<>>, err |-> "not run", var |-> "", reserved |-> {},
     names |-> <<>>]

NotRun == [ok |-> FALSE, node |-> ErrorNode, pos |-> 0, last |-> ""]

Parse ==
    /\ pc = "tokens"
    /\ result' = parse
    /\ pc' = "parsed"
    /\ UNCHANGED <<tokens, checked, reserved_names, generated, eqL, eqR, eqOut,
                 instructions, assembly, sym_table, sym_call>>

\* chain is the scope chain typecheck leaves (on a failure, the chain at the
\* raise); typed holds the assignments `node.type = node_type` typecheck
\* made, as [node, type] pairs
NotChecked ==
    [ok |-> FALSE, type |-> NoType, err |-> "not run", chain |-> <<>>, typed |-> {}]

Typecheck ==
    /\ pc = "parsed"
    /\ result.ok
    /\ LET t == typecheck(result.node)
       IN  checked' = [ok |-> t.ok, type |-> t.type, err |-> t.err,
                       chain |-> t.chain,
                       typed |-> IF t.ok
                                 THEN {[node |-> result.node, type |-> t.type]}
                                 ELSE {}]
    /\ pc' = "checked"
    /\ UNCHANGED <<tokens, result, reserved_names, generated, eqL, eqR, eqOut,
                 instructions, assembly, sym_table, sym_call>>

NextPipeline == Parse \/ Typecheck

\* the state before parse() is called on the token texts of `inputs`
InitPipeline(inputs) ==
    /\ tokens \in {tokenize(texts) : texts \in inputs}
    /\ pc = "tokens"
    /\ result = NotRun
    /\ checked = NotChecked
    /\ reserved_names = DEFAULT_LOCALS
    /\ generated = NotGenerated
    /\ eqL = ErrorNode
    /\ eqR = ErrorNode
    /\ eqOut = FALSE
    /\ instructions = <<>>
    /\ assembly = NotAssembled
    /\ sym_table = <<>>
    /\ sym_call = NoCall

(***************************************************************************)
(* Helpers of the properties                                               *)
(***************************************************************************)
Texts == [i \in 1..Len(tokens) |-> tokens[i].text]

RECURSIVE NoLoc(_)
\* the node with every source location erased
NoLoc(node) ==
    LET n == [node EXCEPT !.loc = 0]
        each(seq) == [i \in 1..Len(seq) |-> NoLoc(seq[i])]
    IN  CASE node.kind = "BinaryOp" ->
               [n EXCEPT !.left = NoLoc(@), !.right = NoLoc(@)]
          [] node.kind = "UnaryOp" -> [n EXCEPT !.target = NoLoc(@)]
          [] node.kind = "IfThen" ->
               [n EXCEPT !.if_expr = NoLoc(@), !.then_expr = NoLoc(@)]
          [] node.kind = "IfThenElse" ->
               [n EXCEPT !.if_expr = NoLoc(@), !.then_expr = NoLoc(@),
                         !.else_expr = NoLoc(@)]
          [] node.kind = "WhileDo" ->
               [n EXCEPT !.condition = NoLoc(@), !.do_expr = NoLoc(@)]
          [] node.kind = "Function" -> [n EXCEPT !.params = each(@)]
          [] node.kind \in {"Block", "TopLevel"} -> [n EXCEPT !.expressions = each(@)]
          [] node.kind = "Variable" ->
               [n EXCEPT !.value = NoLoc(@),
                         !.name = IF @.kind = "str" THEN @ ELSE NoLoc(@)]
          [] OTHER -> n

\* the operand a token stands for
OperandNode(token) ==
    IF token.type = "literal"
    THEN Literal(IF token.text = "true" THEN BoolValue(TRUE)
                 ELSE IF token.text = "false" THEN BoolValue(FALSE)
                 ELSE IntValue(IntOf(token.text)), 0)
    ELSE Identifier(token.text, 0)

\* the binding strength of a binary operator, as the specification lists it
Precedence(op) ==
    CASE op = "or" -> 1
      [] op = "and" -> 2
      [] op \in {"==", "!="} -> 3
      [] op \in {"<", "<=", ">", ">="} -> 4
      [] op \in {"+", "-"} -> 5
      [] op \in {"*", "/", "%"} -> 6

RECURSIVE ExpectedTree(_, _)
\* The tree of the operand/operator chain tokens[lo..hi] (lo, hi operand
\* positions): split at the weakest operator, and at the rightmost of the
\* weakest, so that equal levels group left to right
ExpectedTree(lo, hi) ==
    IF lo = hi THEN OperandNode(tokens[lo])
    ELSE LET ops == {k \in lo..hi : (k - lo) % 2 = 1}
             weakest == {k \in ops :
                           \A j \in ops : Precedence(tokens[k].text)
                                            <= Precedence(tokens[j].text)}
             k == CHOOSE j \in weakest : \A i \in weakest : j >= i
         IN  BinaryOp(ExpectedTree(lo, k - 1), tokens[k].text,
                      ExpectedTree(k + 1, hi), 0)

RECURSIVE ExpectedAssignment(_)
\* The tree of x = y = ... = e from the operand at lo on: every `=` takes
\* all that follows it as its right-hand side
ExpectedAssignment(lo) ==
    IF lo < Len(tokens) /\ tokens[lo + 1].text = "="
    THEN BinaryOp(OperandNode(tokens[lo]), "=", ExpectedAssignment(lo + 2), 0)
    ELSE ExpectedTree(lo, Len(tokens))

(***************************************************************************)
(* Inputs: operand/operator chains                                         *)
(***************************************************************************)
MaxOps == 3
MaxAssign == 3
MaxRhsOps == 2

ChainOperands == <<"1", "a", "2", "b", "c", "3", "d", "4", "e">>
AssignmentOperands == <<"a", "b", "c", "d", "2", "e", "3", "g", "h">>

BinaryOperators == {"or", "and", "==", "!=", "<", "<=", ">", ">=", "+", "-", "*", "/", "%"}

\* the chain x1 o1 x2 o2 ... on xn+1 of the operators ops
Chain(operands, ops) ==
    [i \in 1..(2 * Len(ops) + 1) |->
        IF i % 2 = 1 THEN operands[(i + 1) \div 2] ELSE ops[i \div 2]]

Assignments(n) == [i \in 1..n |-> "="]

PrecedenceInputs ==
    UNION {{Chain(ChainOperands, ops) : ops \in [1..n -> BinaryOperators]} : n \in 1..MaxOps}

AssignmentInputs ==
    UNION {{Chain(AssignmentOperands, Assignments(n) \o ops) : ops \in [1..m -> BinaryOperators]} :
             n \in 1..MaxAssign, m \in 0..MaxRhsOps}

InitPrecedence == InitPipeline(PrecedenceInputs)
SpecPrecedence == InitPrecedence /\ [][NextPipeline]_vars

InitAssignment == InitPipeline(AssignmentInputs)
SpecAssignment == InitAssignment /\ [][NextPipeline]_vars

\* C1: a chain of operands and binary operators of the levels `or` .. `*`
\* parses, and to the tree in which a higher level binds tighter and equal
\* levels group left to right
C1_PrecedenceTree ==
    pc /= "tokens" =>
        /\ result.ok
        /\ NoLoc(result.node) = ExpectedTree(1, Len(tokens))

\* C2: a chain of assignments is right-associative, and an expression of
\* higher-precedence operators on the right of the last `=` nests innermost
C2_AssignmentRightAssociative ==
    pc /= "tokens" =>
        /\ result.ok
        /\ NoLoc(result.node) = ExpectedAssignment(1)

(***************************************************************************)
(* Inputs: blocks and statement sequences                                  *)
(***************************************************************************)
MaxBlockLen == 6

BlockTexts == {"a", ";", "{", "}"}

\* every token list of at most MaxBlockLen tokens over BlockTexts
BlockInputs == UNION {[1..n -> BlockTexts] : n \in 0..MaxBlockLen}

InitBlocks == InitPipeline(BlockInputs)
SpecBlocks == InitBlocks /\ [][NextPipeline]_vars

RECURSIVE Nodes(_)
\* the node and all the nodes below it
Nodes(node) ==
    LET each(seq) == UNION {Nodes(seq[i]) : i \in 1..Len(seq)}
    IN  {node} \cup
        CASE node.kind = "BinaryOp" -> Nodes(node.left) \cup Nodes(node.right)
          [] node.kind = "UnaryOp" -> Nodes(node.target)
          [] node.kind = "IfThen" -> Nodes(node.if_expr) \cup Nodes(node.then_expr)
          [] node.kind = "IfThenElse" ->
               Nodes(node.if_expr) \cup Nodes(node.then_expr) \cup Nodes(node.else_expr)
          [] node.kind = "WhileDo" -> Nodes(node.condition) \cup Nodes(node.do_expr)
          [] node.kind = "Function" -> each(node.params)
          [] node.kind \in {"Block", "TopLevel"} -> each(node.expressions)
          [] node.kind = "Variable" ->
               Nodes(node.value) \cup
               (IF node.name.kind = "str" THEN {} ELSE Nodes(node.name))
          [] OTHER -> {}

BlocksOf(node) == {n \in Nodes(node) : n.kind = "Block"}

RECURSIVE MatchingClose(_, _)
\* the position of the `}` that closes the `{` at position open, found
\* from position i on with depth braces open between
MatchingClose(i, depth) ==
    IF i > Len(tokens) THEN 0
    ELSE IF tokens[i].text = "{" THEN MatchingClose(i + 1, depth + 1)
    ELSE IF tokens[i].text = "}"
    THEN IF depth = 0 THEN i ELSE MatchingClose(i + 1, depth - 1)
    ELSE MatchingClose(i + 1, depth)

MaxTokens == 5

GarbageTexts == {"1", "2", "+", "xd", ";", "(", ")"}

\* every token list of at most MaxTokens tokens over GarbageTexts
GarbageInputs == UNION {[1..n -> GarbageTexts] : n \in 0..MaxTokens}

Init == InitPipeline(GarbageInputs)
Next == Parse \/ Typecheck
Spec == Init /\ [][Next]_vars

\* the positions of the tokens that stand for an operand: the literals and
\* the identifiers that are not the name of a call
OperandPositions ==
    {i \in 1..Len(tokens) :
        \/ tokens[i].type = "literal"
        \/ /\ tokens[i].type = "identifier"
           /\ ~(i < Len(tokens) /\ tokens[i + 1].text = "(")}

\* C4: when parse returns an AST every token was consumed, so that every
\* operand of the input is a leaf of the AST; tokens after a complete
\* top-level sequence, and an operator without a right operand, make parse
\* raise
C4_NoTokensLeft ==
    pc /= "tokens" =>
        /\ result.ok =>
              /\ result.pos = Len(tokens)
              /\ {n.loc : n \in {m \in Nodes(result.node) :
                                    m.kind \in {"Literal", "Identifier"}}}
                   = OperandPositions
        /\ (Len(tokens) > 0 /\ tokens[Len(tokens)].text = "+") => ~result.ok

\* `1 + 2 xd`: the sum is parsed and parse raises at `xd`
C4_Witness ==
    /\ pc = "parsed"
    /\ Texts = <<"1", "+", "2", "xd">>
    /\ ~result.ok
    /\ result.pos = 3

(***************************************************************************)
(* Inputs: blocks of statements with and without `;` between them          *)
(***************************************************************************)
MaxStatements == 3

\* no statement is the beginning of another one
Statements ==
    << <<"a">>,
       <<"{", "b", "}">>,
       <<"if", "true", "then", "{", "a", "}">>,
       <<"if", "true", "then", "b">>,
       <<"x", "=", "{", "a", "}">>,
       <<"1", "+", "c">> >>

RECURSIVE StatementList(_, _, _)
\* the statements stmts[i..], each followed by `;` where semicolons says so
StatementList(stmts, semicolons, i) ==
    IF i > Len(stmts) THEN <<>>
    ELSE Statements[stmts[i]]
           \o (IF semicolons[i] THEN <<";">> ELSE <<>>)
           \o StatementList(stmts, semicolons, i + 1)

StatementInputs ==
    UNION {{<<"{">> \o StatementList(stmts, semicolons, 1) \o <<"}">> :
              stmts \in [1..k -> 1..Len(Statements)],
              semicolons \in [1..k -> BOOLEAN]} : k \in 1..MaxStatements}

InitStatements == InitPipeline(StatementInputs)
SpecStatements == InitStatements /\ [][NextPipeline]_vars

RECURSIVE Split(_)
\* The statements of the block from position i on, as they were put
\* together: where each starts and ends and whether a `;` follows it
Split(i) ==
    IF i >= Len(tokens) THEN <<>>
    ELSE LET s == CHOOSE j \in 1..Len(Statements) :
                     /\ i + Len(Statements[j]) - 1 <= Len(tokens)
                     /\ SubSeq(Texts, i, i + Len(Statements[j]) - 1) = Statements[j]
             end == i + Len(Statements[s]) - 1
             semicolon == tokens[end + 1].text = ";"
         IN  <<[start |-> i, end |-> end, semicolon |-> semicolon]>>
               \o Split(IF semicolon THEN end + 2 ELSE end + 1)

\* C5: a block parses iff each of its statements but the last is followed
\* by `;` or ends with `}`; the statements are then the expressions of the
\* Block, one each
C5_AdjacentExpressions ==
    pc /= "tokens" =>
        LET statements == Split(2)
            k == Len(statements)
            separated == \A j \in 1..(k - 1) :
                            \/ statements[j].semicolon
                            \/ tokens[statements[j].end].text = "}"
        IN  /\ result.ok = separated
            /\ result.ok =>
                  /\ result.node.kind = "Block"
                  /\ Len(result.node.expressions) = k
                  /\ \A j \in 1..k :
                        result.node.expressions[j].loc = statements[j].start

\* `{ if true then { a } 1 + c }`: the conditional ends with `}` and the
\* sum is the second expression of the block
C5_Witness ==
    /\ pc = "parsed"
    /\ Texts = <<"{", "if", "true", "then", "{", "a", "}", "1", "+", "c", "}">>
    /\ result.ok
    /\ Len(result.node.expressions) = 2
    /\ result.node.expressions[1].kind = "IfThen"
    /\ result.node.expressions[2].kind = "BinaryOp"

(***************************************************************************)
(* Inputs: variable declarations in and out of statement position          *)
(***************************************************************************)
DeclaredNames == {"x", "then", "or"}

\* the plain, the typed and the function form of a declaration of name
Declarations(name) ==
    { <<"var", name, "=", "1">>,
      <<"var", name, ":", "Int", "=", "1">>,
      <<"var", name, "(", "a", ")", "=", "{", "1", "}">> }

\* what stands before and after the declaration
DeclarationContexts ==
    { << <<>>, <<>> >>,
      << <<"1", ";">>, <<>> >>,
      << <<"{">>, <<"}">> >>,
      << <<"{", "2", ";">>, <<";", "}">> >>,
      << <<"{", "{", "b", "}">>, <<"}">> >>,
      << <<"var", "y", "=">>, <<>> >>,
      << <<"if">>, <<"then", "2">> >>,
      << <<"if", "true", "then">>, <<>> >>,
      << <<"if", "true", "then", "1", "else">>, <<>> >>,
      << <<"while">>, <<"do", "2">> >>,
      << <<"while", "true", "do">>, <<>> >>,
      << <<"(">>, <<")">> >>,
      << <<"1", "+">>, <<>> >>,
      << <<"y", "=">>, <<>> >>,
      << <<"-">>, <<>> >>,
      << <<"f", "(">>, <<")">> >> }

DeclarationInputs ==
    {c[1] \o d \o c[2] :
        c \in DeclarationContexts,
        d \in UNION {Declarations(name) : name \in DeclaredNames}}

InitDeclarations == InitPipeline(DeclarationInputs)
SpecDeclarations == InitDeclarations /\ [][NextPipeline]_vars

\* the positions of the `var` tokens that do not start a statement of the
\* top level or of a block
MisplacedVars ==
    {p \in 2..Len(tokens) :
        tokens[p].text = "var" /\ tokens[p - 1].text \notin {";", "{", "}"}}

\* C6: a declaration at the start of a top-level statement or of a
\* statement of a block parses to a Variable node; with a `var name ...`
\* anywhere else parse raises
C6_VarOnlyInStatementPosition ==
    pc /= "tokens" =>
        IF MisplacedVars = {}
        THEN /\ result.ok
             /\ \A p \in 1..Len(tokens) :
                   tokens[p].text = "var" =>
                       \E n \in Nodes(result.node) : n.kind = "Variable" /\ n.loc = p
        ELSE ~result.ok

(***************************************************************************)
(* Inputs: declarations with a type annotation                             *)
(***************************************************************************)
MaxParamTypes == 2

TypeNames == {"Int", "Bool", "Unit"}
WrongTypeNames == {"bool", "ABC"}

\* the type a type name stands for
TypeOfName(name) ==
    CASE name = "Int" -> IntType
      [] name = "Bool" -> BoolType
      [] name = "Unit" -> UnitType

RECURSIVE CommaList(_, _)
\* names[i..] with `,` between them
CommaList(names, i) ==
    IF i > Len(names) THEN <<>>
    ELSE IF i = Len(names) THEN <<names[i]>>
    ELSE <<names[i], ",">> \o CommaList(names, i + 1)

\* var f(a): (names) => return = { 1 }, without `=> return` when return
\* is the empty string
FunctionDeclaration(names, return) ==
    <<"var", "f", "(", "a", ")", ":", "(">> \o CommaList(names, 1) \o <<")">>
      \o (IF return = "" THEN <<>> ELSE <<"=>", return>>)
      \o <<"=", "{", "1", "}">>

AnnotationInputs ==
    UNION {{FunctionDeclaration(names, return) :
              names \in [1..n -> TypeNames \cup WrongTypeNames],
              return \in TypeNames \cup WrongTypeNames \cup {""}} :
             n \in 0..MaxParamTypes}
      \cup {<<"var", "x", ":", name, "=", "1">> : name \in TypeNames \cup WrongTypeNames}

InitAnnotations == InitPipeline(AnnotationInputs)
SpecAnnotations == InitAnnotations /\ [][NextPipeline]_vars

\* C7: a function declaration annotated (T1, ..., Tn) => R, n >= 0, with
\* every Ti and R one of Int, Bool, Unit, parses to a Variable whose type
\* is FunType(T1..Tn, R); without `=> R`, or with another type name, parse
\* raises
C7_FunctionTypeAnnotation ==
    pc /= "tokens" =>
      IF Texts[3] = ":"
      THEN IF Texts[4] \in TypeNames
           THEN result.ok /\ result.node.type = TypeOfName(Texts[4])
           ELSE ~result.ok
      ELSE
        LET close == CHOOSE i \in 8..Len(tokens) :
                        /\ Texts[i] = ")"
                        /\ \A j \in 8..(i - 1) : Texts[j] /= ")"
            n == (close - 7) \div 2
            names == [j \in 1..n |-> Texts[6 + 2 * j]]
            arrow == Texts[close + 1] = "=>"
            return == Texts[close + 2]
        IN  IF arrow /\ return \in TypeNames /\ \A j \in 1..n : names[j] \in TypeNames
            THEN /\ result.ok
                 /\ result.node.kind = "Variable"
                 /\ result.node.type
                      = FunType([j \in 1..n |-> TypeOfName(names[j])], TypeOfName(return))
            ELSE ~result.ok

(***************************************************************************)
(* Equality of AST nodes (compiler/my_ast.py) and of IR instructions       *)
(* (compiler/my_ir.py).  __eq__ walks the two __dict__s side by side; an   *)
(* entry of a __dict__ is [field, cat, val], cat the kind of Python value. *)
(***************************************************************************)
Entry(field, cat, val) == [field |-> field, cat |-> cat, val |-> val]

\* node.__dict__ in the order the __init__ methods assign the attributes
ast_dict(node) ==
    <<Entry("source_loc", "loc", node.loc)>> \o
    CASE node.kind = "Literal" -> <<Entry("value", "num", node.value)>>
      [] node.kind = "Identifier" -> <<Entry("name", "str", node.name)>>
      [] node.kind = "BinaryOp" ->
           <<Entry("left", "node", node.left), Entry("op", "str", node.op),
             Entry("right", "node", node.right)>>
      [] node.kind = "UnaryOp" ->
           <<Entry("op", "str", node.op), Entry("target", "node", node.target)>>
      [] node.kind = "IfThen" ->
           <<Entry("if_expr", "node", node.if_expr),
             Entry("then_expr", "node", node.then_expr)>>
      [] node.kind = "IfThenElse" ->
           <<Entry("if_expr", "node", node.if_expr),
             Entry("then_expr", "node", node.then_expr),
             Entry("else_expr", "node", node.else_expr)>>
      [] node.kind = "WhileDo" ->
           <<Entry("condition", "node", node.condition),
             Entry("do_expr", "node", node.do_expr)>>
      [] node.kind = "Function" ->
           <<Entry("name", "str", node.name), Entry("params", "nodes", node.params)>>
      [] node.kind = "Block" ->
           <<Entry("expressions", "nodes", node.expressions),
             Entry("returns_last", "num", BoolValue(node.returns_last))>>
      [] node.kind = "TopLevel" ->
           <<Entry("expressions", "nodes", node.expressions)>>
      [] node.kind = "Variable" ->
           <<IF node.name.kind = "str"
             THEN Entry("name", "str", node.name.s)
             ELSE Entry("name", "node", node.name),
             Entry("value", "node", node.value)>>
      [] OTHER -> <<>>

RECURSIVE Expression_eq(_, _)

\* x != y for two attribute values of AST nodes: values of different kinds
\* differ, True and False compare as the numbers 1 and 0
ast_ne(x, y) ==
    IF x.cat /= y.cat THEN TRUE
    ELSE CASE x.cat = "loc" -> x.val /= y.val
           [] x.cat = "num" -> x.val.v /= y.val.v
           [] x.cat = "str" -> x.val /= y.val
           [] x.cat = "node" -> ~Expression_eq(x.val, y.val)
           [] x.cat = "nodes" ->
                \/ Len(x.val) /= Len(y.val)
                \/ \E i \in 1..Len(x.val) : ~Expression_eq(x.val[i], y.val[i])

Expression_eq(self, value) ==
    LET self_dict == ast_dict(self)
        value_dict == ast_dict(value)
        zip == IF Len(self_dict) <= Len(value_dict)
               THEN Len(self_dict) ELSE Len(value_dict)
    IN  \A i \in 1..zip :
            ast_ne(self_dict[i], value_dict[i]) =>
                /\ self_dict[i].field = "source_loc"
                /\ value_dict[i].field = "source_loc"

IRVar(name) == [kind |-> "IRVar", name |-> name]
Label(name, loc) == [kind |-> "Label", name |-> name, loc |-> loc]
LoadBoolConst(value, dest, loc) ==
    [kind |-> "LoadBoolConst", value |-> value, dest |-> dest, loc |-> loc]
LoadIntConst(value, dest, loc) ==
    [kind |-> "LoadIntConst", value |-> value, dest |-> dest, loc |-> loc]
Copy(source, dest, loc) ==
    [kind |-> "Copy", source |-> source, dest |-> dest, loc |-> loc]
CallInstruction(fun, args, dest, loc) ==
    [kind |-> "Call", fun |-> fun, args |-> args, dest |-> dest, loc |-> loc]
Jump(label, loc) == [kind |-> "Jump", label |-> label, loc |-> loc]
CondJump(cond, then_label, else_label, loc) ==
    [kind |-> "CondJump", cond |-> cond, then_label |-> then_label,
     else_label |-> else_label, loc |-> loc]

\* instruction.__dict__ in the order of the dataclass fields
ir_dict(instruction) ==
    <<Entry("loc", "loc", instruction.loc)>> \o
    CASE instruction.kind = "Label" -> <<Entry("name", "str", instruction.name)>>
      [] instruction.kind = "LoadBoolConst" ->
           <<Entry("value", "num", BoolValue(instruction.value)),
             Entry("dest", "irvar", instruction.dest)>>
      [] instruction.kind = "LoadIntConst" ->
           <<Entry("value", "num", IntValue(instruction.value)),
             Entry("dest", "irvar", instruction.dest)>>
      [] instruction.kind = "Copy" ->
           <<Entry("source", "irvar", instruction.source),
             Entry("dest", "irvar", instruction.dest)>>
      [] instruction.kind = "Call" ->
           <<Entry("fun", "irvar", instruction.fun),
             Entry("args", "irvars", instruction.args),
             Entry("dest", "irvar", instruction.dest)>>
      [] instruction.kind = "Jump" ->
           <<Entry("label", "instruction", instruction.label)>>
      [] instruction.kind = "CondJump" ->
           <<Entry("cond", "irvar", instruction.cond),
             Entry("then_label", "instruction", instruction.then_label),
             Entry("else_label", "instruction", instruction.else_label)>>

RECURSIVE Instruction_eq(_, _)

\* x != y for two field values of instructions
ir_ne(x, y) ==
    IF x.cat /= y.cat THEN TRUE
    ELSE CASE x.cat = "loc" -> x.val /= y.val
           [] x.cat = "num" -> x.val.v /= y.val.v
           [] x.cat = "str" -> x.val /= y.val
           [] x.cat = "irvar" -> x.val.name /= y.val.name
           [] x.cat = "irvars" -> x.val /= y.val
           [] x.cat = "instruction" -> ~Instruction_eq(x.val, y.val)

Instruction_eq(self, value) ==
    LET self_dict == ir_dict(self)
        value_dict == ir_dict(value)
        zip == IF Len(self_dict) <= Len(value_dict)
               THEN Len(self_dict) ELSE Len(value_dict)
    IN  \A i \in 1..zip :
            ir_ne(self_dict[i], value_dict[i]) =>
                /\ self_dict[i].field = "loc"
                /\ value_dict[i].field = "loc"

\* left == right for two AST nodes
ExprEq ==
    /\ pc = "ast"
    /\ eqOut' = Expression_eq(eqL, eqR)
    /\ pc' = "ast compared"
    /\ UNCHANGED <<tokens, result, checked, reserved_names, generated, eqL, eqR,
                 instructions, assembly, sym_table, sym_call>>

\* left == right for two instructions
InstrEq ==
    /\ pc = "ir"
    /\ eqOut' = Instruction_eq(eqL, eqR)
    /\ pc' = "ir compared"
    /\ UNCHANGED <<tokens, result, checked, reserved_names, generated, eqL, eqR,
                 instructions, assembly, sym_table, sym_call>>

NextEq == ExprEq \/ InstrEq

(***************************************************************************)
(* Inputs: pairs of AST nodes and pairs of instructions                    *)
(***************************************************************************)
MaxLoc == 2

Locs == 1..MaxLoc

AstLeavesAt(l) == {Literal(IntValue(1), l), Literal(BoolValue(TRUE), l), Identifier("a", l)}

AstLeaves == UNION {AstLeavesAt(l) : l \in Locs}

AstNodes ==
    AstLeaves
      \cup UNION {{IfThen(c, e, l), WhileDo(c, e, l), IfThenElse(c, e, c, l),
                   BinaryOp(c, "+", e, l), UnaryOp("-", e, l),
                   Block(<<c, e>>, TRUE, l), Block(<<c>>, FALSE, l)} :
                    c \in AstLeavesAt(1), e \in AstLeaves, l \in Locs}

IRVars == {IRVar("x"), IRVar("y")}

Labels == {Label(name, l) : name \in {"L", "x"}, l \in Locs}

Instructions ==
    Labels
      \cup {LoadBoolConst(value, dest, l) :
              value \in BOOLEAN, dest \in IRVars, l \in Locs}
      \cup {LoadIntConst(value, dest, l) :
              value \in 0..2, dest \in IRVars, l \in Locs}
      \cup {Copy(source, dest, l) : source \in IRVars, dest \in IRVars, l \in Locs}
      \cup {CallInstruction(fun, args, IRVar("y"), l) :
              fun \in IRVars, args \in {<<>>, <<IRVar("x")>>}, l \in Locs}
      \cup {Jump(label, l) : label \in Labels, l \in Locs}
      \cup {CondJump(cond, label, Label("L", 1), l) :
              cond \in IRVars, label \in Labels, l \in Locs}

InitEq ==
    /\ tokens = <<>>
    /\ result = NotRun
    /\ checked = NotChecked
    /\ reserved_names = DEFAULT_LOCALS
    /\ generated = NotGenerated
    /\ eqOut = FALSE
    /\ instructions = <<>>
    /\ assembly = NotAssembled
    /\ sym_table = <<>>
    /\ sym_call = NoCall
    /\ \/ pc = "ast" /\ eqL \in AstNodes /\ eqR \in AstNodes
       \/ pc = "ir" /\ eqL \in Instructions /\ eqR \in Instructions

SpecEq == InitEq /\ [][NextEq]_vars

IrKinds == {"Label", "LoadBoolConst", "LoadIntConst", "Copy", "Call", "Jump", "CondJump"}

\* the attributes of an AST node or of an instruction
AttributesOf(x) == IF x.kind \in IrKinds THEN ir_dict(x) ELSE ast_dict(x)

RECURSIVE StructurallyEqual(_, _)
\* the same variant, and every attribute but the location pairwise equal
StructurallyEqual(a, b) ==
    /\ a.kind = b.kind
    /\ LET as == AttributesOf(a)
           bs == AttributesOf(b)
       IN  \A i \in 1..Len(as) :
             CASE as[i].cat = "loc" -> TRUE
               [] as[i].cat = "num" -> as[i].val.v = bs[i].val.v
               [] as[i].cat \in {"str", "irvar", "irvars"} -> as[i].val = bs[i].val
               [] as[i].cat \in {"node", "instruction"} ->
                    StructurallyEqual(as[i].val, bs[i].val)
               [] as[i].cat = "nodes" ->
                    /\ Len(as[i].val) = Len(bs[i].val)
                    /\ \A j \in 1..Len(as[i].val) :
                          StructurallyEqual(as[i].val[j], bs[i].val[j])

\* C8: == on two AST nodes, and on two instructions, is true exactly when
\* they are of the same variant and all their fields but the location are
\* pairwise equal
C8_VariantSensitiveEquality ==
    pc \in {"ast compared", "ir compared"} =>
        eqOut = StructurallyEqual(eqL, eqR)

(***************************************************************************)
(* Inputs: one operator applied to declared variables and literals         *)
(***************************************************************************)
\* var a = 1; var b = true; var u = { };
OperandDeclarations ==
    <<"var", "a", "=", "1", ";", "var", "b", "=", "true", ";",
      "var", "u", "=", "{", "}", ";">>

Operands == {"a", "2", "b", "false", "u"}

\* the binary operators other than =, == and !=
SignatureOperators == {"or", "and", "<", "<=", ">", ">=", "+", "-", "*", "/", "%"}

UnaryOperators == {"-", "not"}

OperatorInputs ==
    {OperandDeclarations \o <<x, op, y>> :
        x \in Operands, op \in SignatureOperators, y \in Operands}
      \cup {OperandDeclarations \o <<op, x>> : op \in UnaryOperators, x \in Operands}

InitOperators == InitPipeline(OperatorInputs)
SpecOperators == InitOperators /\ [][NextPipeline]_vars

\* the type of an operand of the inputs
OperandType(text) ==
    CASE text \in {"a", "2"} -> IntType
      [] text \in {"b", "false"} -> BoolType
      [] text = "u" -> UnitType

\* the type the operands of an operator must have
ParameterType(op) == IF op \in {"or", "and", "not"} THEN BoolType ELSE IntType

\* the type of the result of an operator
ReturnType(op) ==
    IF op \in {"or", "and", "not", "<", "<=", ">", ">="} THEN BoolType ELSE IntType

IsBinaryInput == Len(tokens) = Len(OperandDeclarations) + 3
IsUnaryInput == Len(tokens) = Len(OperandDeclarations) + 2
LeftOperand == Texts[Len(OperandDeclarations) + 1]
BinaryOperator == Texts[Len(OperandDeclarations) + 2]
RightOperand == Texts[Len(OperandDeclarations) + 3]
UnaryOperator == Texts[Len(OperandDeclarations) + 1]
UnaryTarget == Texts[Len(OperandDeclarations) + 2]

\* C9: a binary operator other than =, == and != applied to a left or a
\* right operand that is not of the type of its signature makes typecheck
\* raise a TypeError
C9_OperandMismatchIsTypeError ==
    /\ pc = "parsed" => result.ok
    /\ (/\ pc = "checked"
        /\ IsBinaryInput
        /\ \/ OperandType(LeftOperand) /= ParameterType(BinaryOperator)
           \/ OperandType(RightOperand) /= ParameterType(BinaryOperator))
         => (~checked.ok /\ checked.err = "TypeError")

\* C10: an operator applied to operands of the types of its signature
\* typechecks to the return type of the signature: Int for + - * / % and
\* unary -, Bool for < <= > >=, and, or and not
C10_SignatureReturnType ==
    /\ (/\ pc = "checked"
        /\ IsBinaryInput
        /\ OperandType(LeftOperand) = ParameterType(BinaryOperator)
        /\ OperandType(RightOperand) = ParameterType(BinaryOperator))
         => (checked.ok /\ checked.type = ReturnType(BinaryOperator))
    /\ (/\ pc = "checked"
        /\ IsUnaryInput
        /\ OperandType(UnaryTarget) = ParameterType(UnaryOperator))
         => (checked.ok /\ checked.type = ReturnType(UnaryOperator))

(***************************************************************************)
(* Inputs: =, == and != applied to declared variables and literals         *)
(***************************************************************************)
EqualityOperators == {"=", "==", "!="}

EqualityInputs ==
    {OperandDeclarations \o <<x, op, y>> :
        x \in Operands, op \in EqualityOperators, y \in Operands}

IsEqualityInput == Texts \in EqualityInputs

\* C11: =, == and != applied to two operands of the same type typecheck,
\* = to the type of its left operand; applied to operands of two different
\* types they make typecheck raise a TypeError
C11_EqualityOperandTypes ==
    /\ (pc = "parsed" /\ IsEqualityInput) => result.ok
    /\ (pc = "checked" /\ IsEqualityInput) =>
         IF OperandType(LeftOperand) = OperandType(RightOperand)
         THEN /\ checked.ok
              /\ BinaryOperator = "=" => checked.type = OperandType(LeftOperand)
         ELSE ~checked.ok /\ checked.err = "TypeError"

(***************************************************************************)
(* Inputs: conditionals over declared variables and literals               *)
(***************************************************************************)
ConditionalInputs ==
    {OperandDeclarations \o <<"if", c, "then", x>> : c \in Operands, x \in Operands}
      \cup {OperandDeclarations \o <<"if", c, "then", x, "else", y>> :
              c \in Operands, x \in Operands, y \in Operands}

IsConditionalInput == Texts \in ConditionalInputs
IsIfThenInput == IsConditionalInput /\ Len(tokens) = Len(OperandDeclarations) + 4
ConditionOperand == Texts[Len(OperandDeclarations) + 2]
ThenOperand == Texts[Len(OperandDeclarations) + 4]
ElseOperand == Texts[Len(OperandDeclarations) + 6]

\* C12: a conditional whose condition is not a Bool makes typecheck fail;
\* if c then x with a Bool c is a Unit whatever x is; if c then x else y
\* with a Bool c fails when x and y are of two types and is of their type
\* otherwise
C12_ConditionalTypes ==
    /\ (pc = "parsed" /\ IsConditionalInput) => result.ok
    /\ (pc = "checked" /\ IsConditionalInput) =>
         IF OperandType(ConditionOperand) /= BoolType THEN ~checked.ok
         ELSE IF IsIfThenInput THEN checked.ok /\ checked.type = UnitType
         ELSE IF OperandType(ThenOperand) /= OperandType(ElseOperand) THEN ~checked.ok
         ELSE checked.ok /\ checked.type = OperandType(ThenOperand)

(***************************************************************************)
(* Inputs: declarations and uses of x and y in nested blocks               *)
(***************************************************************************)
MaxScopeItems == 5

ScopeItems ==
    {<<"var", "x", "=", "1">>, <<"var", "x", "=", "true">>,
     <<"var", "y", "=", "x">>, <<"x">>, <<"y">>, <<"{">>, <<"}">>}

\* every `}` of the list closes a `{` before it, and every `{` is closed
Balanced(items) ==
    LET opened(k) == Cardinality({i \in 1..k : items[i] = <<"{">>})
        closed(k) == Cardinality({i \in 1..k : items[i] = <<"}">>})
    IN  /\ \A k \in 1..Len(items) : closed(k) <= opened(k)
        /\ closed(Len(items)) = opened(Len(items))

RECURSIVE Program(_, _)
\* the items from the i-th on, with `;` between two items of one block
Program(items, i) ==
    IF i > Len(items) THEN <<>>
    ELSE items[i]
           \o (IF i < Len(items) /\ items[i] /= <<"{">> /\ items[i + 1] /= <<"}">>
               THEN <<";">> ELSE <<>>)
           \o Program(items, i + 1)

ScopeInputs ==
    UNION {{Program(items, 1) : items \in {l \in [1..n -> ScopeItems] : Balanced(l)}} :
             n \in 1..MaxScopeItems}

IsScopeInput == Texts \in ScopeInputs

ScopeNames == {"x", "y"}

\* a scope that binds no name
NoBindings == [name \in ScopeNames |-> NoType]

\* the binding of name in the innermost scope of the stack that has one
Visible(stack, name) ==
    LET bound == {k \in 1..Len(stack) : stack[k][name] /= NoType}
    IN  IF bound = {} THEN NoType
        ELSE stack[CHOOSE k \in bound : \A j \in bound : j <= k][name]

RECURSIVE ScopeWalk(_, _)
\* The scoping rules applied to the tokens from the i-th on.  st.stack is
\* the stack of the open scopes (the innermost last), st.last[k] the type
\* of the last expression of the k-th open scope; a use of an unbound name
\* and a second declaration of a name in one scope clear st.ok and leave
\* in st.err which of the two it was and in st.at the position of the
\* expression.  A name followed by `(` is a call; the programs declare no
\* function, so the name of a call is bound only if it is a built-in one.
ScopeWalk(i, st) ==
    IF ~st.ok \/ i > Len(tokens) THEN st
    ELSE
      LET text == Texts[i]
          n == Len(st.stack)
      IN  CASE text = ";" -> ScopeWalk(i + 1, st)
            [] text = "{" ->
                 ScopeWalk(i + 1, [st EXCEPT !.stack = Append(@, NoBindings),
                                             !.last = Append(@, UnitType)])
            [] text = "}" ->
                 ScopeWalk(i + 1,
                           [st EXCEPT !.stack = SubSeq(@, 1, n - 1),
                                      !.last = [SubSeq(@, 1, n - 1)
                                                  EXCEPT ![n - 1] = st.last[n]]])
            [] text = "var" ->
                 LET name == Texts[i + 1]
                     value == IF Texts[i + 3] \in ScopeNames
                              THEN Visible(st.stack, Texts[i + 3])
                              ELSE IF Texts[i + 3] = "1" THEN IntType ELSE BoolType
                 IN  IF value = NoType
                     THEN [st EXCEPT !.ok = FALSE, !.err = "unbound", !.at = i + 3]
                     ELSE IF st.stack[n][name] /= NoType
                     THEN [st EXCEPT !.ok = FALSE, !.err = "redeclared", !.at = i]
                     ELSE ScopeWalk(i + 4, [st EXCEPT !.stack[n][name] = value,
                                                      !.last[n] = UnitType])
            [] i < Len(tokens) /\ Texts[i + 1] = "(" ->
                 IF text \notin DOMAIN DefaultLocals
                 THEN [st EXCEPT !.ok = FALSE, !.err = "unbound", !.at = i]
                 ELSE ScopeWalk(CHOOSE j \in (i + 3)..(Len(tokens) + 1) :
                                   /\ Texts[j - 1] = ")"
                                   /\ \A k \in (i + 2)..(j - 2) : Texts[k] /= ")",
                                [st EXCEPT !.last[n] = DefaultLocals[text].return_type])
            [] OTHER ->
                 LET value == Visible(st.stack, text)
                 IN  IF value = NoType
                     THEN [st EXCEPT !.ok = FALSE, !.err = "unbound", !.at = i]
                     ELSE ScopeWalk(i + 1, [st EXCEPT !.last[n] = value])

ExpectedScopes ==
    ScopeWalk(1, [ok |-> TRUE, stack |-> <<NoBindings>>, last |-> <<UnitType>>,
                  err |-> "", at |-> 0])

FunctionParams == {<<>>, <<"x">>, <<"x", "y">>}
FunctionBodies == {<<"1">>, <<"true">>, <<"x">>, <<"x", "+", "y">>}
FunctionCalls ==
    {<<>>, <<";", "f", "(", ")">>, <<";", "f", "(", "1", ")">>,
     <<";", "f", "(", "true", ")">>, <<";", "f", "(", "1", ",", "2", ")">>}

\* the type of the i-th parameter of a case: the annotated one, Int without
\* annotation
ParamType(c, i) == IF c.types = <<>> THEN IntType ELSE TypeOfName(c.types[i])

\* the type of the body of a case
BodyType(c) ==
    CASE c.body = <<"1">> -> IntType
      [] c.body = <<"true">> -> BoolType
      [] c.body = <<"x">> -> ParamType(c, 1)
      [] c.body = <<"x", "+", "y">> -> IntType

\* the declarations whose body is well typed under the parameter types;
\* types = <<>> stands for a declaration without annotation
FunctionCases ==
    {c \in [params : FunctionParams,
            types : {<<>>} \cup UNION {[1..n -> {"Int", "Bool"}] : n \in 1..2},
            body : FunctionBodies,
            call : FunctionCalls] :
       /\ c.types /= <<>> => Len(c.types) = Len(c.params)
       /\ c.body = <<"x">> => Len(c.params) >= 1
       /\ c.body = <<"x", "+", "y">> =>
            /\ Len(c.params) = 2
            /\ \A i \in 1..2 : ParamType(c, i) = IntType}

TypeName(type) == CHOOSE name \in {"Int", "Bool", "Unit"} : TypeOfName(name) = type

\* var f(params): (types) => return = { body } call
FunctionProgram(c) ==
    <<"var", "f", "(">> \o CommaList(c.params, 1) \o <<")">>
      \o (IF c.types = <<>> THEN <<>>
          ELSE <<":", "(">> \o CommaList(c.types, 1)
                 \o <<")", "=>", TypeName(BodyType(c))>>)
      \o <<"=", "{">> \o c.body \o <<"}">> \o c.call

FunctionInputs == {FunctionProgram(c) : c \in FunctionCases}

IsFunctionInput == Texts \in FunctionInputs

\* C14: after var f(p1, ..., pn) = { body }, f is bound to the FunType of
\* the parameter types (the annotated ones, Int without annotation) and of
\* the type of the body, and a call of f that follows, whatever its
\* arguments, has the type of the body
C14_FunctionDeclaration ==
    /\ (pc = "parsed" /\ IsFunctionInput) => result.ok
    /\ \A c \in FunctionCases :
         (pc = "checked" /\ Texts = FunctionProgram(c)) =>
            /\ checked.ok
            /\ TypeTableLookup(checked.chain, "f")
                 = FunType([i \in 1..Len(c.params) |-> ParamType(c, i)], BodyType(c))
            /\ c.call /= <<>> => checked.type = BodyType(c)

(***************************************************************************)
(* The types typecheck leaves on the nodes                                 *)
(***************************************************************************)
\* C15: after typecheck has returned, every node of the tree, the root and
\* all the nodes below it, has had its type set, the root to the type
\* typecheck returned
C15_EveryNodeTyped ==
    (pc = "checked" /\ checked.ok) =>
       /\ \A node \in Nodes(result.node) : \E set \in checked.typed : set.node = node
       /\ \A set \in checked.typed : set.node = result.node => set.type = checked.type

(***************************************************************************)
(* Inputs: programs with calls of undeclared and of built-in functions     *)
(***************************************************************************)
MaxNameItems == 4

CallItems == {<<"f", "(", ")">>, <<"f", "(", "x", ")">>, <<"read_int", "(", ")">>}

\* the well-nested programs with at least one call
NameInputs ==
    UNION {{Program(items, 1) :
              items \in {l \in [1..n -> ScopeItems \cup CallItems] :
                           /\ Balanced(l)
                           /\ \E i \in 1..n : l[i] \in CallItems}} :
             n \in 1..MaxNameItems}

IsNameInput == Texts \in NameInputs

\* the bindings of the names of the programs in a scope of the type checker
BindingsOf(locals) ==
    [name \in ScopeNames |-> IF name \in DOMAIN locals THEN locals[name] ELSE NoType]

\* C16: when the first expression that breaks a scoping rule is an
\* identifier or a call whose name is bound in no open scope, typecheck
\* raises there: the scopes are left as the expressions before it made
\* them, so that no expression after it has been checked and no name has
\* been bound after the failure
C16_UnboundNameStopsChecking ==
    (/\ pc = "checked"
     /\ IsScopeInput \/ IsNameInput
     /\ ExpectedScopes.err = "unbound")
      => /\ ~checked.ok
         /\ checked.err = "Exception"
         /\ checked.typed = {}
         /\ Len(checked.chain) = Len(ExpectedScopes.stack)
         /\ \A k \in 1..Len(checked.chain) :
               BindingsOf(checked.chain[k]) = ExpectedScopes.stack[k]

\* an unbound name has been reached with a declaration still to come after
\* it, and typecheck has raised
C16_Witness ==
    /\ pc = "checked"
    /\ IsScopeInput \/ IsNameInput
    /\ ExpectedScopes.err = "unbound"
    /\ \E i \in (ExpectedScopes.at + 1)..Len(tokens) : Texts[i] = "var"
    /\ ~checked.ok

(***************************************************************************)
(* The programs of the type checker's properties                           *)
(***************************************************************************)
TypingInputs ==
    EqualityInputs
      \cup ConditionalInputs
      \cup ScopeInputs
      \cup FunctionInputs
      \cup NameInputs

InitTyping == InitPipeline(TypingInputs)
SpecTyping == InitTyping /\ [][NextPipeline]_vars

(***************************************************************************)
(* The IR generator (compiler/ir_generator.py).  The state of a run is     *)
(* [ok, err, ins, reserved, table, var]: ins the instruction list,         *)
(* reserved the set reserved_names, table the `locals` of the symbol table *)
(* the visit works on (no table of a run has a parent), var the name of    *)
(* the IRVar the last call returned (after generate_ir, of the IRVar the   *)
(* visit of the root returned); err is the message of the exception        *)
(* raised.  An IRVar is IRVar(name), the table maps names to IRVar names.  *)
(* names is the history of the run: the names new_var and new_label have   *)
(* returned, in the order of the calls.                                    *)
(***************************************************************************)
\* range(100) of new_var and new_label
NameLimit == 100

var_unit == "unit"

IrRaise(st, err) == [st EXCEPT !.ok = FALSE, !.err = err]

\* the first "<prefix><i>", i < NameLimit, that is not reserved
FreeName(prefix, reserved) ==
    LET free == {i \in 0..(NameLimit - 1) : (prefix \o ToString(i)) \notin reserved}
    IN  IF free = {} THEN ""
        ELSE prefix \o ToString(CHOOSE i \in free : \A j \in free : i <= j)

\* a variable that is handed out again although it is reserved
new_var_reusing(st) ==
    [st EXCEPT !.var = "v0", !.names = Append(@, "v0")]

\* new_var(): st.var is the new variable
new_var(st) ==
    LET name == FreeName("v", st.reserved)
    IN  IF name = "" THEN IrRaise(st, "Ran out of variables!")
        ELSE [st EXCEPT !.reserved = @ \cup {name}, !.var = name,
                        !.names = Append(@, name)]

\* a label that is handed out again although it is reserved
new_label_reusing(st) ==
    [st EXCEPT !.var = "L0", !.names = Append(@, "L0")]

\* new_label(loc): st.var is the name of the new label
new_label(st) ==
    LET name == FreeName("L", st.reserved)
    IN  IF name = "" THEN IrRaise(st, "Ran out of labels!")
        ELSE [st EXCEPT !.reserved = @ \cup {name}, !.var = name,
                        !.names = Append(@, name)]

\* ins.append(instruction)
Emit(st, instruction) == [st EXCEPT !.ins = Append(@, instruction)]

\* SymTable(locals={}, parent=None) filled with an IRVar for every reserved
\* name
ReservedTable(reserved) == [name \in reserved |-> name]

\* a block's table that also resolves what the enclosing scope binds
block_sym_table_with_parent(st) == st.table @@ ReservedTable(st.reserved)

\* the block_sym_table of the Block case of visit: no parent, an IRVar for
\* every name reserved when the block is entered
block_sym_table(st) == ReservedTable(st.reserved)

\* One statement after another: `value` is what the statement before
\* has left, computed once; when it has raised (ok is FALSE) the raise
\* propagates and F, the rest of the function, is not run
Try(value, F(_)) ==
    CHOOSE next \in {IF x.ok THEN F(x) ELSE x : x \in {value}} : TRUE

RECURSIVE visit(_, _)
RECURSIVE visit_each(_, _, _)

\* `for child_expr in expressions: visit(sym_table, child_expr)`
visit_each(st, expressions, i) ==
    IF i > Len(expressions) THEN st
    ELSE Try(visit(st, expressions[i]),
             LAMBDA child : visit_each(child, expressions, i + 1))

\* an assignment that copies into whatever variable the left side gives
visit_assignment_any_target(st, expr) ==
    Try(visit(st, expr.left), LAMBDA left :
    Try(visit(left, expr.right), LAMBDA right :
        [Emit(right, Copy(IRVar(right.var), IRVar(left.var), expr.loc))
           EXCEPT !.var = var_unit]))

\* the BinaryOp case of visit when expr.op is "="
visit_assignment(st, expr) ==
    IF expr.left.kind /= "Identifier"
    THEN IrRaise(st, "is not an identifier")
    ELSE Try(visit(st, expr.left), LAMBDA left :
         Try(visit(left, expr.right), LAMBDA right :
             [Emit(right, Copy(IRVar(right.var), IRVar(left.var), expr.loc))
                EXCEPT !.var = var_unit]))

visit(st, expr) ==
    IF expr.loc = 0 THEN IrRaise(st, "Missing SourceLocation")
    ELSE
    CASE expr.kind = "Literal" ->
           IF expr.value.t = "bool"
           THEN Try(new_var(st), LAMBDA v :
                    Emit(v, LoadBoolConst(expr.value.v = 1, IRVar(v.var), expr.loc)))
           ELSE IF expr.value.t = "int"
           THEN Try(new_var(st), LAMBDA v :
                    Emit(v, LoadIntConst(expr.value.v, IRVar(v.var), expr.loc)))
           ELSE IF expr.value.t = "None" THEN [st EXCEPT !.var = var_unit]
           ELSE IrRaise(st, "unsupported literal")
      [] expr.kind = "Identifier" ->
           IF expr.name \notin DOMAIN st.table
           THEN IrRaise(st, "not found in IR Table")
           ELSE [st EXCEPT !.var = st.table[expr.name]]
      [] expr.kind = "Variable" ->
           IF expr.name.kind /= "str" THEN IrRaise(st, "Not implemented!")
           ELSE Try(visit(st, expr.value), LAMBDA value_ir :
                    IF expr.name.s \in DOMAIN value_ir.table
                    THEN IrRaise(value_ir, "already in the symbol table")
                    ELSE [value_ir EXCEPT
                            !.table = (expr.name.s :> value_ir.var) @@ @,
                            !.var = var_unit])
      [] expr.kind = "UnaryOp" ->
           IF expr.target.kind /= "Literal"
           THEN IrRaise(st, "Target of an unary function was not a Literal")
           ELSE IF expr.op = "-"
           THEN IF expr.target.value.t \notin {"int", "bool"}
                THEN IrRaise(st, "Target of '-' was not an int")
                ELSE Try(new_var(st), LAMBDA v :
                         Emit(v, LoadIntConst(0 - expr.target.value.v,
                                              IRVar(v.var), expr.loc)))
           ELSE IF expr.op = "not"
           THEN Try(new_var(st), LAMBDA v :
                    \* `not expr.target`: a node is true
                    Emit(v, LoadBoolConst(FALSE, IRVar(v.var), expr.loc)))
           ELSE IrRaise(st, "Expected either '-' or 'not")
      [] expr.kind = "BinaryOp" ->
           IF expr.op = "=" THEN visit_assignment(st, expr)
           ELSE
             Try(visit(st, expr.left), LAMBDA left :
                 IF expr.op \in {"or", "and"} /\ left.ins = <<>>
                 THEN IrRaise(left, "IndexError")
                 ELSE IF /\ expr.op = "or"
                         /\ left.ins[Len(left.ins)].kind = "LoadBoolConst"
                         /\ left.ins[Len(left.ins)].value = TRUE
                 THEN Try(new_var(left), LAMBDA v :
                          Emit(v, LoadBoolConst(TRUE, IRVar(v.var), expr.loc)))
                 ELSE IF /\ expr.op = "and"
                         /\ left.ins[Len(left.ins)].kind = "LoadBoolConst"
                         /\ left.ins[Len(left.ins)].value = FALSE
                 THEN Try(new_var(left), LAMBDA v :
                          Emit(v, LoadBoolConst(FALSE, IRVar(v.var), expr.loc)))
                 ELSE IF expr.op \notin DOMAIN left.table
                 THEN IrRaise(left, "not found in IR Table")
                 ELSE Try(visit(left, expr.right), LAMBDA right :
                      Try(new_var(right), LAMBDA v :
                          Emit(v, CallInstruction(IRVar(left.table[expr.op]),
                                                  <<IRVar(left.var), IRVar(right.var)>>,
                                                  IRVar(v.var), expr.loc)))))
      [] expr.kind = "IfThen" ->
           Try(new_label(st), LAMBDA l_then :
           Try(new_label(l_then), LAMBDA l_end :
           Try(visit(l_end, expr.if_expr), LAMBDA cond :
           Try(visit(Emit(Emit(cond, CondJump(IRVar(cond.var),
                                              Label(l_then.var, expr.loc),
                                              Label(l_end.var, expr.loc), expr.loc)),
                          Label(l_then.var, expr.loc)),
                     expr.then_expr), LAMBDA then :
               [Emit(then, Label(l_end.var, expr.loc)) EXCEPT !.var = var_unit]))))
      [] expr.kind = "IfThenElse" ->
           Try(new_label(st), LAMBDA l_then :
           Try(new_label(l_then), LAMBDA l_else :
           Try(new_label(l_else), LAMBDA l_end :
           Try(visit(l_end, expr.if_expr), LAMBDA cond :
           Try(visit(Emit(Emit(cond, CondJump(IRVar(cond.var),
                                              Label(l_then.var, expr.loc),
                                              Label(l_end.var, expr.loc), expr.loc)),
                          Label(l_then.var, expr.loc)),
                     expr.then_expr), LAMBDA then :
           Try(visit(Emit(Emit(then, Jump(Label(l_end.var, expr.loc), expr.loc)),
                          Label(l_else.var, expr.loc)),
                     expr.then_expr), LAMBDA else :
               [Emit(else, Label(l_end.var, expr.loc)) EXCEPT !.var = var_unit]))))))
      [] expr.kind = "TopLevel" ->
           Try(visit_each(st, expr.expressions, 1), LAMBDA children :
               [children EXCEPT !.var = var_unit])
      [] expr.kind = "Block" ->
           Try(visit_each([st EXCEPT !.table = block_sym_table(st)],
                          expr.expressions, 1), LAMBDA children :
               [children EXCEPT !.table = st.table, !.var = var_unit])
      [] OTHER -> IrRaise(st, "Didn't match any ast!")

\* the classes Int and Bool, as values
ClassObject(name) == [kind |-> "type", name |-> name]

\* the `type` attribute of a node: what typecheck set on it, else what the
\* parser gave a Variable; no other node has the attribute
Absent == [kind |-> "absent"]
TypeAttribute(node) ==
    IF \E set \in checked.typed : set.node = node
    THEN (CHOOSE set \in checked.typed : set.node = node).type
    ELSE IF node.kind = "Variable" THEN node.type
    ELSE Absent

\* self == value for the `type` of a node: Int, Bool and Unit compare the
\* classes of the two objects, a FunType its fields with another FunType,
\* None is equal to None only
Type_eq(self, value) ==
    IF self.kind \in {"Int", "Bool", "Unit"} THEN self.kind = value.kind
    ELSE self = value

generate_ir(reserved, root_expr) ==
    LET start == [ok |-> TRUE, err |-> "", ins |-> <<>>, reserved |-> reserved,
                  table |-> ReservedTable(reserved), var |-> "", names |-> <<>>]
        type == TypeAttribute(root_expr)
        print(var_final_result, name) ==
            Try(new_var(var_final_result), LAMBDA v :
                [Emit(v, CallInstruction(IRVar(name),
                                         <<IRVar(var_final_result.var)>>,
                                         IRVar(v.var), 0))
                   EXCEPT !.var = var_final_result.var])
    IN  Try(visit(start, root_expr), LAMBDA var_final_result :
            IF type = Absent THEN IrRaise(var_final_result, "AttributeError")
            ELSE IF Type_eq(type, ClassObject("Int"))
            THEN print(var_final_result, "print_int")
            ELSE IF Type_eq(type, ClassObject("Bool"))
            THEN print(var_final_result, "print_bool")
            ELSE var_final_result)

\* generate_ir(reserved_names, root) on the tree parse() returned, after
\* typecheck or without it
GenerateIr ==
    /\ \/ pc = "parsed" /\ result.ok
       \/ pc = "checked" /\ checked.ok
    /\ LET g == generate_ir(reserved_names, result.node)
       IN  generated' = [ok |-> g.ok, ins |-> g.ins, err |-> g.err, var |-> g.var,
                         reserved |-> g.reserved, names |-> g.names]
    /\ pc' = IF pc = "parsed" THEN "generated unchecked" ELSE "generated"
    /\ UNCHANGED <<tokens, result, checked, reserved_names, eqL, eqR, eqOut,
                 instructions, assembly, sym_table, sym_call>>

NextCompile == Parse \/ Typecheck \/ GenerateIr

\* the state before parse() is called, with the reserved_names the caller
\* of generate_ir will pass
InitCompile(inputs, reserved_sets) ==
    /\ tokens \in {tokenize(texts) : texts \in inputs}
    /\ pc = "tokens"
    /\ result = NotRun
    /\ checked = NotChecked
    /\ reserved_names \in reserved_sets
    /\ generated = NotGenerated
    /\ eqL = ErrorNode
    /\ eqR = ErrorNode
    /\ eqOut = FALSE
    /\ instructions = <<>>
    /\ assembly = NotAssembled
    /\ sym_table = <<>>
    /\ sym_call = NoCall

(***************************************************************************)
(* Inputs: chains of binary operators over literals                        *)
(***************************************************************************)
LoweringOperands == {"1", "2", "true", "false"}
LoweringOperators ==
    {"or", "and", "==", "!=", "<", "<=", ">", ">=", "+", "-", "*", "/", "%"}
ChainOperators == {"+", "*", "<", "or", "and"}

LoweringInputs ==
    {<<x, op, y>> : x \in LoweringOperands, op \in LoweringOperators,
                    y \in LoweringOperands}
      \cup {<<x, op1, y, op2, z>> :
              x \in LoweringOperands, op1 \in ChainOperators, y \in LoweringOperands,
              op2 \in ChainOperators, z \in LoweringOperands}

IsLoweringInput == Texts \in LoweringInputs

\* the instructions without their locations
NoLocs(ins) == [i \in 1..Len(ins) |-> [ins[i] EXCEPT !.loc = 0]]

RECURSIVE ExpectedLowering(_, _)
\* The lowering of a tree of binary operators over literals when v<n> is
\* the next variable: the instructions of the left operand, those of the
\* right operand, then the call of the operator on their two variables
ExpectedLowering(node, n) ==
    LET v == IRVar("v" \o ToString(n))
    IN  IF node.kind = "Literal"
        THEN [ins |-> <<IF node.value.t = "bool"
                        THEN LoadBoolConst(node.value.v = 1, v, 0)
                        ELSE LoadIntConst(node.value.v, v, 0)>>,
              var |-> v, next |-> n + 1]
        ELSE LET left == ExpectedLowering(node.left, n)
                 right == ExpectedLowering(node.right, left.next)
                 dest == IRVar("v" \o ToString(right.next))
             IN  [ins |-> left.ins \o right.ins
                            \o <<CallInstruction(IRVar(node.op), <<left.var, right.var>>,
                                                 dest, 0)>>,
                  var |-> dest, next |-> right.next + 1]

\* C17: a tree of binary operators other than `=` is lowered to the
\* instructions of the left operand, then those of the right operand, then
\* one Call(op, [left_var, right_var], dest) into the next variable, the
\* variables numbered v0, v1, ... as they are allocated; after these
\* instructions comes at most the call that prints the result
C17_BinaryOpLowering ==
    (pc = "generated" /\ IsLoweringInput) =>
       LET expected == ExpectedLowering(result.node, 0).ins
       IN  /\ generated.ok
           /\ Len(generated.ins) \in {Len(expected), Len(expected) + 1}
           /\ SubSeq(NoLocs(generated.ins), 1, Len(expected)) = expected

(***************************************************************************)
(* Inputs: programs of type Int, Bool and Unit                             *)
(***************************************************************************)
\* the declarations alone, and the declarations followed by an operand
PrintInputs ==
    {OperandDeclarations} \cup {OperandDeclarations \o <<x>> : x \in Operands}

IsPrintInput == Texts \in PrintInputs \cup LoweringInputs

\* the variable that holds the value of the program: of a chain of
\* operators the destination of its last call, of the declared a and b the
\* variables v0 and v1 of their values, of u the unit variable, of a
\* literal after the declarations the next variable, v2
ExpectedResult ==
    IF IsLoweringInput THEN ExpectedLowering(result.node, 0).var.name
    ELSE CASE Texts[Len(tokens)] = "a" -> "v0"
           [] Texts[Len(tokens)] = "b" -> "v1"
           [] Texts[Len(tokens)] \in {"u", ";"} -> var_unit
           [] OTHER -> "v2"

\* the names of the variables of the instructions ins[1..n]
NamesUsed(ins, n) ==
    UNION {CASE ins[i].kind \in {"LoadBoolConst", "LoadIntConst"} -> {ins[i].dest.name}
             [] ins[i].kind = "Copy" -> {ins[i].source.name, ins[i].dest.name}
             [] ins[i].kind = "Call" ->
                  {ins[i].fun.name, ins[i].dest.name}
                    \cup {ins[i].args[j].name : j \in 1..Len(ins[i].args)}
             [] ins[i].kind = "CondJump" -> {ins[i].cond.name}
             [] OTHER -> {} : i \in 1..n}

PrintCalls(ins) ==
    {i \in 1..Len(ins) : /\ ins[i].kind = "Call"
                         /\ ins[i].fun.name \in {"print_int", "print_bool"}}

\* C18: the instructions of a program of type Int end with the one call
\* of print_int in them, on the variable that holds the value of the
\* program and into a variable not used before; those of a program of type
\* Bool with such a call of print_bool; those of a program of type Unit
\* have no such call
C18_FinalPrintCall ==
    (pc = "generated" /\ IsPrintInput) =>
       LET ins == generated.ins
           n == Len(ins)
           print == IF checked.type = IntType THEN "print_int" ELSE "print_bool"
       IN  /\ generated.ok
           /\ IF checked.type = UnitType THEN PrintCalls(ins) = {}
              ELSE /\ PrintCalls(ins) = {n}
                   /\ ins[n].fun = IRVar(print)
                   /\ ins[n].args = <<IRVar(ExpectedResult)>>
                   /\ ins[n].dest.name \notin NamesUsed(ins, n - 1) \cup reserved_names

(***************************************************************************)
(* Inputs: conditionals and operators, lowered with some of the names      *)
(* v<i> and L<i> reserved by the caller                                    *)
(***************************************************************************)
MaxFreeNames == 3

AllocationConditions == {<<"true">>, <<"1", "<", "2">>}
AllocationBranches == {<<"1">>, <<"1", "+", "2">>, <<"if", "false", "then", "3">>}
AllocationElses ==
    {<<>>, <<"else", "2">>, <<"else", "if", "true", "then", "3", "else", "4">>}

AllocationInputs ==
    {<<"if">> \o c \o <<"then">> \o t \o e :
        c \in AllocationConditions, t \in AllocationBranches, e \in AllocationElses}
      \cup {<<"1", "+", "2", "*", "3">>}

IsAllocationInput == Texts \in AllocationInputs

\* "<prefix><i>" for every i from `from` up to the limit
NamesFrom(prefix, from) == {prefix \o ToString(i) : i \in from..(NameLimit - 1)}

\* what the caller reserves beside the built-in names: all the variables
\* but the first k and all the labels but the first m, or a few of the
\* first names
ReservedSets ==
    {DEFAULT_LOCALS \cup NamesFrom("v", k) \cup NamesFrom("L", m) :
        k \in 0..MaxFreeNames \cup {NameLimit}, m \in 0..MaxFreeNames \cup {NameLimit}}
      \cup {DEFAULT_LOCALS \cup taken :
              taken \in {{"v0"}, {"v1", "L0"}, {"v0", "v2", "L1"}, {"v1", "v2", "L0", "L2"}}}

\* conditionals in the then branch of a conditional, and one after another
LabelInputs ==
    {<<"if", "true", "then", "if", "false", "then", "3", "else", "4", "else", "5">>,
     <<"if", "true", "then", "1", "else", "2", ";",
       "if", "false", "then", "3", "else", "4">>,
     <<"var", "a", "=", "if", "true", "then", "1", "else", "2", ";",
       "if", "true", "then", "a", "else", "5">>}

InitAllocation == InitCompile(AllocationInputs \cup LabelInputs, ReservedSets)
SpecAllocation == InitAllocation /\ [][NextCompile]_vars

\* the names of the history before the k-th
NamesBefore(k) == {generated.names[j] : j \in 1..(k - 1)}

IsLowestFree(name, prefix, taken) ==
    \E i \in 0..(NameLimit - 1) :
       /\ name = prefix \o ToString(i)
       /\ name \notin taken
       /\ \A j \in 0..(i - 1) : (prefix \o ToString(j)) \in taken

\* the destinations of the loads and calls of the instructions, in order
RECURSIVE Destinations(_, _)
Destinations(ins, i) ==
    IF i > Len(ins) THEN <<>>
    ELSE (IF ins[i].kind \in {"LoadBoolConst", "LoadIntConst", "Call"}
          THEN <<ins[i].dest.name>> ELSE <<>>) \o Destinations(ins, i + 1)

IsVariableName(name) == name \in NamesFrom("v", 0)

\* C19: every name new_var and new_label return is the lowest-numbered
\* v<i> (L<i>) that is not reserved and has not been returned before, so
\* the names of a run are pairwise distinct and none is a reserved name;
\* the variables are the destinations of the loads and calls, in order; a
\* run raises the out-of-names error only when every v<i> (L<i>) below the
\* limit is taken
C19_FreshNames ==
    (pc \in {"generated", "generated unchecked"} /\ IsAllocationInput) =>
       LET names == generated.names
       IN  /\ \A k \in 1..Len(names) :
                \/ IsLowestFree(names[k], "v", reserved_names \cup NamesBefore(k))
                \/ IsLowestFree(names[k], "L", reserved_names \cup NamesBefore(k))
           /\ \A j, k \in 1..Len(names) : j /= k => names[j] /= names[k]
           /\ \A k \in 1..Len(names) : names[k] \notin reserved_names
           /\ SelectSeq(names, IsVariableName) = Destinations(generated.ins, 1)
           /\ generated.reserved = reserved_names \cup {names[k] : k \in 1..Len(names)}
           /\ generated.err = "Ran out of variables!" =>
                NamesFrom("v", 0) \subseteq generated.reserved
           /\ generated.err = "Ran out of labels!" =>
                NamesFrom("L", 0) \subseteq generated.reserved

\* a run has taken the last free variable and then raised for the next
C19_Witness ==
    /\ pc \in {"generated", "generated unchecked"}
    /\ IsAllocationInput
    /\ generated.err = "Ran out of variables!"
    /\ Len(generated.names) > 0
    /\ \E k \in 1..Len(generated.names) : IsVariableName(generated.names[k])

(***************************************************************************)
(* Inputs: an assignment after the declarations of a and b, at the top     *)
(* level or in the block that is the value of a variable                   *)
(***************************************************************************)
CopyDeclarations ==
    <<"var", "a", "=", "1", ";", "var", "b", "=", "true", ";">>

\* left sides: bound names, an unbound name, and what is not a name
CopyTargets ==
    {<<"a">>, <<"b">>, <<"c">>, <<"1">>, <<"true">>, <<"a", "+", "1">>}

CopyValues ==
    {<<"2">>, <<"false">>, <<"a">>, <<"b">>, <<"c">>, <<"a", "+", "2">>,
     <<"2", "<", "c">>, <<"a", "=", "2">>, <<"b", "=", "a">>, <<"1", "=", "2">>}

CopyStatements ==
    {CopyDeclarations \o l \o <<"=">> \o r :
        l \in CopyTargets, r \in CopyValues}

CopyInputs ==
    CopyStatements
      \cup {<<"var", "w", "=", "{">> \o p \o <<"}">> : p \in CopyStatements}

IsCopyInput == Texts \in CopyInputs

\* the variables the two declarations bind, and their instructions
CopyBindings == [name \in {"a", "b"} |-> IF name = "a" THEN "v0" ELSE "v1"]
CopyLoads ==
    <<LoadIntConst(1, IRVar("v0"), 0), LoadBoolConst(TRUE, IRVar("v1"), 0)>>

\* the statements of the program: those of the top level or of the block
CopyProgram ==
    IF result.node.kind = "TopLevel" THEN result.node.expressions
    ELSE result.node.value.expressions

RECURSIVE ExpectedCopies(_, _)
\* What the claim asks of an expression of literals, names, operators and
\* assignments when v<n> is the next variable: [ok, ins, var, next], ins
\* being what is emitted up to the error when ok is FALSE
ExpectedCopies(node, n) ==
    LET failed(ins) == [ok |-> FALSE, ins |-> ins, var |-> "", next |-> n]
    IN  CASE node.kind = "Literal" ->
               LET v == "v" \o ToString(n)
               IN  [ok |-> TRUE,
                    ins |-> <<IF node.value.t = "bool"
                              THEN LoadBoolConst(node.value.v = 1, IRVar(v), 0)
                              ELSE LoadIntConst(node.value.v, IRVar(v), 0)>>,
                    var |-> v, next |-> n + 1]
          [] node.kind = "Identifier" ->
               IF node.name \in DOMAIN CopyBindings
               THEN [ok |-> TRUE, ins |-> <<>>, var |-> CopyBindings[node.name],
                     next |-> n]
               ELSE failed(<<>>)
          [] node.kind = "BinaryOp" /\ node.op = "=" ->
               IF node.left.kind /= "Identifier" THEN failed(<<>>)
               ELSE IF node.left.name \notin DOMAIN CopyBindings THEN failed(<<>>)
               ELSE LET right == ExpectedCopies(node.right, n)
                    IN  IF ~right.ok THEN right
                        ELSE [ok |-> TRUE,
                              ins |-> right.ins
                                        \o <<Copy(IRVar(right.var),
                                                  IRVar(CopyBindings[node.left.name]),
                                                  0)>>,
                              var |-> var_unit, next |-> right.next]
          [] node.kind = "BinaryOp" /\ node.op /= "=" ->
               LET left == ExpectedCopies(node.left, n)
                   right == ExpectedCopies(node.right, left.next)
                   dest == "v" \o ToString(right.next)
               IN  IF ~left.ok THEN left
                   ELSE IF ~right.ok THEN failed(left.ins \o right.ins)
                   ELSE [ok |-> TRUE,
                         ins |-> left.ins \o right.ins
                                   \o <<CallInstruction(IRVar(node.op),
                                                        <<IRVar(left.var), IRVar(right.var)>>,
                                                        IRVar(dest), 0)>>,
                         var |-> dest, next |-> right.next + 1]

CopyErrors == {"is not an identifier", "not found in IR Table"}

\* C20: an assignment whose left side is not an identifier raises and
\* emits no Copy; one whose left side is a bound identifier emits the
\* instructions of its right side and then one Copy(right_var, left_var)
\* into the variable bound to the identifier, and its own result is the
\* unit variable (an assignment of an assignment copies `unit`)
C20_AssignmentLowering ==
    (pc \in {"generated", "generated unchecked"} /\ IsCopyInput) =>
       LET expected == ExpectedCopies(CopyProgram[3], 2)
       IN  /\ NoLocs(generated.ins) = CopyLoads \o expected.ins
           /\ ~expected.ok => ~generated.ok /\ generated.err \in CopyErrors
           /\ expected.ok => generated.err \notin CopyErrors
           /\ CopyProgram[3].left.kind /= "Identifier" =>
                /\ generated.err = "is not an identifier"
                /\ \A i \in 1..Len(generated.ins) : generated.ins[i].kind /= "Copy"

\* generate_ir has returned the instructions of an assignment of an
\* assignment: the inner result, the unit variable, is copied
C20_Witness ==
    /\ pc = "generated unchecked"
    /\ IsCopyInput
    /\ generated.ok
    /\ Len(generated.ins) = 5
    /\ generated.ins[4].kind = "Copy"
    /\ generated.ins[5].kind = "Copy"
    /\ generated.ins[5].source = IRVar(var_unit)

(***************************************************************************)
(* Inputs: conditionals whose two branches differ                          *)
(***************************************************************************)
BranchConditions == {<<"true">>, <<"false">>, <<"1", "<", "2">>}
BranchThens == {<<"1">>, <<"1", "+", "2">>}
BranchElses == {<<"2">>, <<"3", "*", "4">>, <<"1">>}

IfThenInputs ==
    {<<"if">> \o c \o <<"then">> \o t : c \in BranchConditions, t \in BranchThens}

IfThenElseInputs ==
    {<<"if">> \o c \o <<"then">> \o t \o <<"else">> \o e :
        c \in BranchConditions, t \in BranchThens, e \in BranchElses}

BranchInputs == IfThenInputs \cup IfThenElseInputs

IsBranchInput == Texts \in BranchInputs

\* The instructions the two forms are to have, the labels being L0, L1
\* and L2 in the order then, else (IfThenElse only), end, each carrying
\* the location of the conditional
ExpectedBranches(node) ==
    LET label(i) == Label("L" \o ToString(i), node.loc)
        here(i) == Label("L" \o ToString(i), 0)
        cond == ExpectedLowering(node.if_expr, 0)
        then == ExpectedLowering(node.then_expr, cond.next)
    IN  IF node.kind = "IfThen"
        THEN cond.ins \o <<CondJump(cond.var, label(0), label(1), 0), here(0)>>
               \o then.ins \o <<here(1)>>
        ELSE LET else == ExpectedLowering(node.else_expr, then.next)
             IN  cond.ins \o <<CondJump(cond.var, label(0), label(1), 0), here(0)>>
                   \o then.ins \o <<Jump(label(2), 0), here(1)>>
                   \o else.ins \o <<here(2)>>

\* C21: an IfThen is lowered to the condition, CondJump(cond, L_then,
\* L_end), Label L_then, the then branch, Label L_end; an IfThenElse to the
\* condition, CondJump(cond, L_then, L_else), Label L_then, the then
\* branch, Jump(L_end), Label L_else, the else expression, Label L_end
C21_ConditionalLowering ==
    (pc \in {"generated", "generated unchecked"} /\ IsBranchInput) =>
       LET expected == ExpectedBranches(result.node)
       IN  /\ Len(generated.ins) >= Len(expected)
           /\ SubSeq(NoLocs(generated.ins), 1, Len(expected)) = expected

(***************************************************************************)
(* Inputs: `or` and `and` over two Bool variables, declared in either      *)
(* order, and over Bool literals                                           *)
(***************************************************************************)
ShortCircuitDeclarations ==
    {<<"var", n, "=", x, ";", "var", m, "=", y, ";">> :
        n \in {"a", "c"}, m \in {"a", "c"}, x \in {"true", "false"},
        y \in {"true", "false"}} \ 
    {<<"var", n, "=", x, ";", "var", n, "=", y, ";">> :
        n \in {"a", "c"}, x \in {"true", "false"}, y \in {"true", "false"}}

ShortCircuitOperands == {"a", "c", "true", "false"}

ShortCircuitInputs ==
    {d \o <<l, op, r>> :
        d \in ShortCircuitDeclarations, l \in ShortCircuitOperands,
        op \in {"or", "and"}, r \in ShortCircuitOperands}

IsShortCircuitInput == Texts \in ShortCircuitInputs

\* the variable of a declared name: v0 for the first declaration, v1 for
\* the second
DeclaredVar(name) == IF Texts[2] = name THEN IRVar("v0") ELSE IRVar("v1")

\* the variables the instructions read
Reads(ins) ==
    UNION {CASE ins[i].kind = "CondJump" -> {ins[i].cond}
             [] ins[i].kind = "Copy" -> {ins[i].source}
             [] ins[i].kind = "Call" -> {ins[i].args[k] : k \in 1..Len(ins[i].args)}
             [] OTHER -> {} : i \in 1..Len(ins)}

\* C22: the instructions of `l or r` and `l and r` hold a CondJump on the
\* variable of l, and when l and r are variables they read both of them,
\* whatever instruction came last before the expression
C22_ShortCircuit ==
    (pc \in {"generated", "generated unchecked"} /\ IsShortCircuitInput) =>
       LET expression == result.node.expressions[3]
           tail == SubSeq(generated.ins, 3, Len(generated.ins))
           left_var == IF expression.left.kind = "Identifier"
                       THEN DeclaredVar(expression.left.name) ELSE IRVar("v2")
       IN  /\ \E i \in 1..Len(tail) : tail[i].kind = "CondJump" /\ tail[i].cond = left_var
           /\ (expression.left.kind = "Identifier" /\ expression.right.kind = "Identifier")
                => {DeclaredVar(expression.left.name),
                    DeclaredVar(expression.right.name)} \subseteq Reads(tail)

(***************************************************************************)
(* Inputs: a block after a declaration of the enclosing scope, and a name  *)
(* read after the block                                                    *)
(***************************************************************************)
BlockOuters == {<<>>, <<"var", "x", "=", "1", ";">>}

BlockBodies ==
    {<<"x">>, <<"y">>, <<"1">>, <<"print_int">>, <<"v0">>,
     <<"var", "y", "=", "2">>,
     <<"var", "y", "=", "2", ";", "y">>,
     <<"var", "x", "=", "3", ";", "x">>,
     <<"var", "print_int", "=", "3">>,
     <<"var", "y", "=", "2", ";", "{", "y", "}">>,
     <<"{", "var", "y", "=", "2", "}", ";", "y">>}

BlockAfters == {<<>>, <<";", "x">>, <<";", "y">>}

BlockScopeInputs ==
    {outer \o <<"{">> \o body \o <<"}">> \o after :
        outer \in BlockOuters, body \in BlockBodies, after \in BlockAfters}

IsBlockScopeInput == Texts \in BlockScopeInputs

\* the names v0 .. v<n-1>
VarNames(n) == {"v" \o ToString(i) : i \in 0..(n - 1)}

RECURSIVE ExpectedResolution(_, _)
RECURSIVE ExpectedResolutions(_, _, _)
\* What the claim asks of a program of literals, names, declarations and
\* blocks: s is [ok, err, bound, n], bound the names the scope resolves
\* and n the number of variables handed out so far.  A block starts from
\* the reserved names alone and gives the bindings of its scope back
\* when it ends.
ExpectedResolution(node, s) ==
    CASE node.kind = "Literal" -> [s EXCEPT !.n = @ + 1]
      [] node.kind = "Identifier" ->
           IF node.name \in s.bound THEN s
           ELSE [s EXCEPT !.ok = FALSE, !.err = "unresolved"]
      [] node.kind = "Variable" ->
           Try(ExpectedResolution(node.value, s), LAMBDA value :
               IF node.name.s \in value.bound
               THEN [value EXCEPT !.ok = FALSE, !.err = "declared twice"]
               ELSE [value EXCEPT !.bound = @ \cup {node.name.s}])
      [] node.kind = "TopLevel" -> ExpectedResolutions(node.expressions, 1, s)
      [] node.kind = "Block" ->
           Try(ExpectedResolutions(node.expressions, 1,
                              [s EXCEPT !.bound = reserved_names \cup VarNames(s.n)]),
               LAMBDA inner : [inner EXCEPT !.bound = s.bound])

ExpectedResolutions(nodes, i, s) ==
    IF i > Len(nodes) THEN s
    ELSE Try(ExpectedResolution(nodes[i], s),
             LAMBDA next : ExpectedResolutions(nodes, i + 1, next))

ExpectedResolutionOfProgram ==
    ExpectedResolution(result.node,
                  [ok |-> TRUE, err |-> "", bound |-> reserved_names, n |-> 0])

LabelInstructions(name) ==
    {i \in 1..Len(generated.ins) :
        generated.ins[i].kind = "Label" /\ generated.ins[i].name = name}

\* the names of the labels a Jump or a CondJump of the list refers to
ReferencedLabels ==
    {generated.ins[i].label.name :
        i \in {j \in 1..Len(generated.ins) : generated.ins[j].kind = "Jump"}}
      \cup {generated.ins[i].then_label.name :
              i \in {j \in 1..Len(generated.ins) : generated.ins[j].kind = "CondJump"}}
      \cup {generated.ins[i].else_label.name :
              i \in {j \in 1..Len(generated.ins) : generated.ins[j].kind = "CondJump"}}

\* the names of the Label instructions of the list
EmittedLabels ==
    {generated.ins[i].name :
        i \in {j \in 1..Len(generated.ins) : generated.ins[j].kind = "Label"}}

\* C28: in a list generate_ir returns no label name is the name of two
\* Label instructions, and every label a Jump or a CondJump refers to is
\* the name of exactly one Label instruction of the list
C28_LabelsUnique ==
    (pc \in {"generated", "generated unchecked"} /\ generated.ok) =>
       /\ \A name \in EmittedLabels : Cardinality(LabelInstructions(name)) = 1
       /\ \A name \in ReferencedLabels : Cardinality(LabelInstructions(name)) = 1

\* generate_ir has returned the instructions of a conditional with an
\* else branch whose branches hold conditionals: two visits of the inner
\* then branch, a Jump, and a label no jump refers to
C28_Witness ==
    /\ pc \in {"generated", "generated unchecked"}
    /\ generated.ok
    /\ Cardinality(EmittedLabels) >= 9
    /\ \E i \in 1..Len(generated.ins) : generated.ins[i].kind = "Jump"
    /\ EmittedLabels \ ReferencedLabels /= {}
    /\ "L0" \notin EmittedLabels

(***************************************************************************)
(* Inputs: two declarations, the second initialised from the first or     *)
(* from a literal, and an assignment to the second                         *)
(***************************************************************************)
AliasValues == {<<"x">>, <<"2">>, <<"x", "+", "1">>}

AliasStatements ==
    {<<"var", "x", "=", "1", ";", "var", "y", "=">> \o value
        \o <<";", "y", "=", "5">> : value \in AliasValues}

AliasInputs ==
    AliasStatements
      \cup {<<"var", "w", "=", "{">> \o p \o <<"}">> : p \in AliasStatements}

IsAliasInput == Texts \in AliasInputs

\* the variable the declaration of x has loaded its value into
AliasFirstVar == generated.ins[1].dest

\* C29: x and y are bound to distinct IRVars, so after `var x = 1;
\* var y = ...; y = 5` the IRVar bound to x is the destination of no Copy
C29_DistinctVariables ==
    (pc \in {"generated", "generated unchecked"} /\ IsAliasInput) =>
       /\ Len(generated.ins) > 0
       /\ generated.ins[1].kind = "LoadIntConst"
       /\ \A i \in 1..Len(generated.ins) :
             generated.ins[i].kind = "Copy" => generated.ins[i].dest /= AliasFirstVar

(***************************************************************************)
(* Inputs: a unary operator on a literal                                   *)
(***************************************************************************)
NegationOperations ==
    {<<"-", n>> : n \in {"0", "1", "3", "5"}}
      \cup {<<"not", b>> : b \in {"true", "false"}}

NegationInputs ==
    NegationOperations \cup {<<"var", "w", "=">> \o p : p \in NegationOperations}

IsNegationInput == Texts \in NegationInputs

\* the UnaryOp of the program
NegationNode ==
    IF result.node.kind = "Variable" THEN result.node.value ELSE result.node

\* C30: unary `-` on the integer literal n emits LoadIntConst(-n, v) and
\* unary `not` on the boolean literal b emits LoadBoolConst(not b, v), v
\* being a fresh variable
C30_UnaryLowering ==
    (pc \in {"generated", "generated unchecked"} /\ IsNegationInput) =>
       /\ NegationNode.kind = "UnaryOp"
       /\ NegationNode.op = "-" =>
            NoLocs(generated.ins)
              = <<LoadIntConst(0 - NegationNode.target.value.v, IRVar("v0"), 0)>>
       /\ NegationNode.op = "not" =>
            NoLocs(generated.ins)
              = <<LoadBoolConst(NegationNode.target.value.v /= 1, IRVar("v0"), 0)>>

(***************************************************************************)
(* The programs of the IR generator's properties                           *)
(***************************************************************************)
InitLowering ==
    InitCompile(LoweringInputs \cup PrintInputs \cup CopyInputs
                  \cup BranchInputs
                  \cup ShortCircuitInputs
                  \cup BlockScopeInputs
                  \cup AliasInputs
                  \cup NegationInputs, {DEFAULT_LOCALS})
SpecLowering == InitLowering /\ [][NextCompile]_vars

(***************************************************************************)
(* The assembly generator: generate_assembly(instructions)                 *)
(*                                                                         *)
(* The lines are the strings the code passes to emit(); the text returned  *)
(* is the lines joined by newlines.                                        *)
(***************************************************************************)
RECURSIVE Join(_, _, _)
\* separator.join(strings[i:])
Join(strings, separator, i) ==
    IF i > Len(strings) THEN ""
    ELSE IF i = Len(strings) THEN strings[i]
    ELSE strings[i] \o separator \o Join(strings, separator, i + 1)

\* the values of the fields of an instruction that are an IRVar or stand
\* in a list, in the order of dataclasses.fields(insn): loc, which is
\* never an IRVar, comes first
FieldVars(insn) ==
    CASE insn.kind \in {"LoadBoolConst", "LoadIntConst"} -> <<insn.dest>>
      [] insn.kind = "Copy" -> <<insn.source, insn.dest>>
      [] insn.kind = "Call" -> <<insn.fun>> \o insn.args \o <<insn.dest>>
      [] insn.kind = "CondJump" -> <<insn.cond>>
      [] OTHER -> <<>>

RECURSIVE AllFieldVars(_, _)
AllFieldVars(instructions_, i) ==
    IF i > Len(instructions_) THEN <<>>
    ELSE FieldVars(instructions_[i]) \o AllFieldVars(instructions_, i + 1)

\* a variable is added when it is not in result_set yet
get_all_ir_variables(instructions_) ==
    LET values == AllFieldVars(instructions_, 1)
        added == {i \in 1..Len(values) : \A j \in 1..(i - 1) : values[j] /= values[i]}
        nth(k) == CHOOSE i \in added : Cardinality({j \in added : j < i}) = k - 1
    IN  [k \in 1..Cardinality(added) |-> values[nth(k)]]

\* a Locals whose offsets start at the frame base
Locals_from_frame_base(variables) ==
    [var_to_location |->
        [v \in {variables[k] : k \in 1..Len(variables)} |->
            LET k == CHOOSE k \in 1..Len(variables) :
                       /\ variables[k] = v
                       /\ \A j \in (k + 1)..Len(variables) : variables[j] /= v
            IN  ToString(0 - 8 * (k - 1)) \o "(%rbp)"],
     stack_used |-> 8 * Len(variables)]

\* Locals(variables): offset goes down by 8 before each variable gets its
\* location; a later occurrence of a variable would replace its location
Locals(variables) ==
    [var_to_location |->
        [v \in {variables[k] : k \in 1..Len(variables)} |->
            LET k == CHOOSE k \in 1..Len(variables) :
                       /\ variables[k] = v
                       /\ \A j \in (k + 1)..Len(variables) : variables[j] /= v
            IN  ToString(0 - 8 * k) \o "(%rbp)"],
     stack_used |-> 8 * Len(variables)]

get_ref(locals, v) == locals.var_to_location[v]

param_registers == <<"%rdi", "%rsi", "%rdx", "%rcx", "%r8", "%r9">>

\* the names registered in intrinsics.all_intrinsics
all_intrinsics ==
    {"print_int", "print_bool", "read_int", "unary_-", "unary_not",
     "+", "-", "*", "/", "%", "<", "<=", ">", ">=", "==", "!=", "or", "and"}

\* what the routine of an intrinsic emits, given the references of the
\* arguments and the result register: kept as one line
IntrinsicLines(name, refs, result_register) ==
    <<"intrinsic " \o name \o " " \o Join(refs, ", ", 1) \o " -> " \o result_register>>

\* str(loc) of an instruction
LocStr(loc) == IF loc = 0 THEN "None" ELSE ToString(loc)

\* str(label) for the Label inside a jump
LabelStr(label) == "Label(" \o LocStr(label.loc) \o ", " \o label.name \o ")"

\* str(insn): the class name and the fields, loc first
InstructionStr(insn) ==
    LET names(vars_) == [i \in 1..Len(vars_) |-> vars_[i].name]
        fields ==
            CASE insn.kind = "Label" -> <<insn.name>>
              [] insn.kind = "LoadBoolConst" ->
                   <<IF insn.value THEN "True" ELSE "False", insn.dest.name>>
              [] insn.kind = "LoadIntConst" -> <<ToString(insn.value), insn.dest.name>>
              [] insn.kind = "Copy" -> <<insn.source.name, insn.dest.name>>
              [] insn.kind = "Call" ->
                   <<insn.fun.name, "[" \o Join(names(insn.args), ", ", 1) \o "]",
                     insn.dest.name>>
              [] insn.kind = "Jump" -> <<LabelStr(insn.label)>>
              [] insn.kind = "CondJump" ->
                   <<insn.cond.name, LabelStr(insn.then_label), LabelStr(insn.else_label)>>
    IN  insn.kind \o "(" \o Join(<<LocStr(insn.loc)>> \o fields, ", ", 1) \o ")"

\* zip(insn.args, param_registers): the pairs up to the shorter of the two
Zip(args, registers) ==
    [i \in 1..(IF Len(args) < Len(registers) THEN Len(args) ELSE Len(registers)) |->
        <<args[i], registers[i]>>]

\* the lines of one pass of the loop over the instructions
InstructionLines(insn, locals) ==
    <<"# " \o InstructionStr(insn)>> \o
    CASE insn.kind = "Label" -> <<"", ".L" \o insn.name \o ":">>
      [] insn.kind = "LoadIntConst" ->
           \* -2**31 <= insn.value < 2**31
           IF (0 - 2147483647) - 1 <= insn.value /\ insn.value <= 2147483647
           THEN <<"movq $" \o ToString(insn.value) \o ", " \o get_ref(locals, insn.dest)>>
           ELSE <<"movabsq $" \o ToString(insn.value) \o ", %rax",
                  "movq %rax, " \o get_ref(locals, insn.dest)>>
      [] insn.kind = "LoadBoolConst" ->
           IF insn.value = TRUE
           THEN <<"movq $1, " \o get_ref(locals, insn.dest)>>
           ELSE <<"movq $0, " \o get_ref(locals, insn.dest)>>
      [] insn.kind = "Copy" ->
           <<"movq " \o get_ref(locals, insn.source) \o ", %rax",
             "movq %rax, " \o get_ref(locals, insn.dest)>>
      [] insn.kind = "Jump" -> <<"jmp .L" \o insn.label.name>>
      [] insn.kind = "CondJump" ->
           <<"cmpq $0, " \o get_ref(locals, insn.cond),
             "jne .L" \o insn.then_label.name,
             "jmp .L" \o insn.else_label.name>>
      [] insn.kind = "Call" ->
           IF insn.fun.name \in all_intrinsics
           THEN IntrinsicLines(insn.fun.name,
                               [i \in 1..Len(insn.args) |-> get_ref(locals, insn.args[i])],
                               "%rax")
           ELSE LET pairs == Zip(insn.args, param_registers)
                IN  [i \in 1..Len(pairs) |->
                        "movq " \o get_ref(locals, pairs[i][1]) \o ", " \o pairs[i][2]]
                      \o <<"callq " \o get_ref(locals, insn.fun), "popq %rbp", "ret">>

RECURSIVE EachInstructionLines(_, _, _)
\* `for insn in instructions`
EachInstructionLines(instructions_, locals, i) ==
    IF i > Len(instructions_) THEN <<>>
    ELSE InstructionLines(instructions_[i], locals)
           \o EachInstructionLines(instructions_, locals, i + 1)

generate_assembly(instructions_) ==
    LET locals == Locals(get_all_ir_variables(instructions_))
        lines ==
            <<".extern print_int", ".extern print_bool", ".extern read_int",
              ".global main", ".type main, @ function", ".section .text",
              "main:", "pushq %rbp", "movq %rsp, %rbp",
              "subq $" \o ToString(locals.stack_used) \o ", %rsp">>
              \o EachInstructionLines(instructions_, locals, 1)
              \o <<"movq $0, %rax", "movq %rbp, %rsp", "popq %rbp", "ret">>
    IN  [ok |-> TRUE, lines |-> lines, text |-> Join(lines, "\n", 1), err |-> "",
         locals |-> locals]

\* generate_assembly(instructions)
GenerateAssembly ==
    /\ pc = "instructions"
    /\ assembly' = generate_assembly(instructions)
    /\ pc' = "assembled"
    /\ UNCHANGED <<tokens, result, checked, reserved_names, generated, eqL, eqR, eqOut,
                   instructions, sym_table, sym_call>>

NextAssembly == GenerateAssembly

\* the state before generate_assembly is called on one of the lists
InitAssembly(lists) ==
    /\ tokens = <<>>
    /\ pc = "instructions"
    /\ result = NotRun
    /\ checked = NotChecked
    /\ reserved_names = DEFAULT_LOCALS
    /\ generated = NotGenerated
    /\ eqL = ErrorNode
    /\ eqR = ErrorNode
    /\ eqOut = FALSE
    /\ instructions \in lists
    /\ assembly = NotAssembled
    /\ sym_table = <<>>
    /\ sym_call = NoCall

(***************************************************************************)
(* Inputs: lists of instructions over a few variables and labels, with     *)
(* calls of an intrinsic, of print_int and of a function f                 *)
(***************************************************************************)
MaxInstructions == 3
MaxCallArgs == 7

\* the arguments a1, a2, ... of a call of f
CallArgs(n) == [i \in 1..n |-> IRVar("a" \o ToString(i))]

AssemblyInstructions ==
    {LoadIntConst(1, IRVar("v0"), 1), LoadIntConst(2, IRVar("x"), 2),
     LoadBoolConst(TRUE, IRVar("v1"), 0), LoadBoolConst(FALSE, IRVar("v0"), 1),
     Copy(IRVar("v0"), IRVar("v1"), 1), Copy(IRVar("x"), IRVar("v0"), 2),
     Label("L0", 1), Jump(Label("L0", 1), 2),
     CondJump(IRVar("x"), Label("L0", 1), Label("L1", 1), 1),
     CallInstruction(IRVar("+"), <<IRVar("v0"), IRVar("v1")>>, IRVar("v2"), 1),
     CallInstruction(IRVar("print_int"), <<IRVar("x")>>, IRVar("v1"), 0)}
      \cup {CallInstruction(IRVar("f"), CallArgs(n), IRVar("v0"), 1) :
              n \in {0, 1, 2, MaxCallArgs - 1, MaxCallArgs}}

RECURSIVE ListsOf(_, _)
\* the lists of at most n elements of a set
ListsOf(set, n) ==
    IF n = 0 THEN {<<>>}
    ELSE LET shorter == ListsOf(set, n - 1)
         IN  shorter \cup {Append(list, x) : list \in shorter, x \in set}

\* the instructions of the longest lists
CoreInstructions ==
    {LoadIntConst(1, IRVar("v0"), 1), LoadIntConst(2, IRVar("x"), 2),
     Copy(IRVar("v0"), IRVar("v1"), 1), Copy(IRVar("x"), IRVar("v0"), 2),
     CallInstruction(IRVar("+"), <<IRVar("v0"), IRVar("v1")>>, IRVar("v2"), 1),
     CallInstruction(IRVar("f"), CallArgs(2), IRVar("v0"), 1)}

\* every list shorter than the longest, and the longest over the core
AssemblyInputs ==
    ListsOf(AssemblyInstructions, MaxInstructions - 1)
      \cup ListsOf(CoreInstructions, MaxInstructions)

InitAssemblyLists == InitAssembly(AssemblyInputs)
SpecAssembly == InitAssemblyLists /\ [][NextAssembly]_vars

\* every IRVar the instructions refer to, in the order of the scan
Occurrences == AllFieldVars(instructions, 1)

FirstOccurrence(v) == CHOOSE i \in 1..Len(Occurrences) :
                        /\ Occurrences[i] = v
                        /\ \A j \in 1..(i - 1) : Occurrences[j] /= v

ReferencedVars == {Occurrences[i] : i \in 1..Len(Occurrences)}

\* v is the k-th distinct variable of the scan
OccurrenceRank(v) ==
    Cardinality({w \in ReferencedVars : FirstOccurrence(w) <= FirstOccurrence(v)})

\* the lines that store a constant or copy into the variable of a slot
StoresInto(v) ==
    {"movq $1, " \o assembly.locals.var_to_location[v],
     "movq $0, " \o assembly.locals.var_to_location[v],
     "movq $2, " \o assembly.locals.var_to_location[v],
     "movq %rax, " \o assembly.locals.var_to_location[v]}

\* C23: the k-th distinct IRVar in first-occurrence order has the slot
\* -8k(%rbp); distinct variables have distinct slots, every IRVar of the
\* instructions has a slot, the prologue reserves 8 * n bytes, and the
\* lines of a load or a copy store into the slot of its destination
C23_StackSlots ==
    pc = "assembled" =>
       LET slots == assembly.locals.var_to_location
           n == Cardinality(ReferencedVars)
       IN  /\ DOMAIN slots = ReferencedVars
           /\ \A v \in ReferencedVars :
                slots[v] = ToString(0 - 8 * OccurrenceRank(v)) \o "(%rbp)"
           /\ \A v, w \in ReferencedVars : v /= w => slots[v] /= slots[w]
           /\ assembly.locals.stack_used = 8 * n
           /\ assembly.lines[10] = "subq $" \o ToString(8 * n) \o ", %rsp"
           /\ \A i \in 1..Len(instructions) :
                instructions[i].kind \in {"LoadIntConst", "LoadBoolConst", "Copy"} =>
                   \E k \in 1..Len(assembly.lines) :
                      assembly.lines[k] \in StoresInto(instructions[i].dest)

\* three variables first met in the order x, v0, v1 have their slots
C23_Witness ==
    /\ pc = "assembled"
    /\ Len(instructions) = 3
    /\ ReferencedVars = {IRVar("x"), IRVar("v0"), IRVar("v1")}
    /\ OccurrenceRank(IRVar("x")) = 1
    /\ OccurrenceRank(IRVar("v1")) = 3
    /\ assembly.locals.var_to_location[IRVar("v1")] = "-24(%rbp)"
    /\ assembly.locals.stack_used = 24

\* the instructions of the list that call something that is no intrinsic
OrdinaryCalls ==
    {i \in 1..Len(instructions) :
        /\ instructions[i].kind = "Call"
        /\ instructions[i].fun.name \notin all_intrinsics}

\* the lines that begin with the comment of the instruction
LinesOfComment(insn) ==
    {k \in 1..Len(assembly.lines) : assembly.lines[k] = "# " \o InstructionStr(insn)}

\* C24: a call of a function that is no intrinsic moves the slot of its
\* i-th argument into the i-th register of %rdi, %rsi, %rdx, %rcx, %r8,
\* %r9, one move for every argument, and then calls; with more than six
\* arguments generate_assembly fails and emits no call for it
C24_CallArguments ==
    pc = "assembled" =>
       \A i \in OrdinaryCalls :
          LET insn == instructions[i]
              n == Len(insn.args)
              slots == assembly.locals.var_to_location
          IN  IF n <= Len(param_registers)
              THEN /\ assembly.ok
                   /\ LinesOfComment(insn) /= {}
                   /\ \A k \in LinesOfComment(insn) :
                        /\ \A a \in 1..n :
                             assembly.lines[k + a] =
                               "movq " \o slots[insn.args[a]] \o ", " \o param_registers[a]
                        /\ assembly.lines[k + n + 1] = "callq " \o slots[insn.fun]
              ELSE /\ ~assembly.ok
                   /\ LinesOfComment(insn) = {}

\* C26: every `ret` comes right after `movq %rbp, %rsp` and `popq %rbp`,
\* after a call of a function that is no intrinsic as well as at the end
C26_FrameRestoredBeforeRet ==
    pc = "assembled" =>
       \A k \in 1..Len(assembly.lines) :
          assembly.lines[k] = "ret" =>
             /\ k > 2
             /\ assembly.lines[k - 1] = "popq %rbp"
             /\ assembly.lines[k - 2] = "movq %rbp, %rsp"

(***************************************************************************)
(* SymTable (compiler/interpreter.py).  A chain of scopes is a sequence of *)
(* `locals` dictionaries, the innermost first: the parent of scope s is    *)
(* scope s + 1 and the last scope has parent None.  A method is called on  *)
(* a scope of the chain and returns [ok, chain, found, returned]: ok is    *)
(* FALSE when it raised, chain is the chain after the call, found tells a  *)
(* returned value from the None of lookup.  The values are integers.       *)
(***************************************************************************)
\* locals={}
EmptyLocals == [name \in {} |-> 0]

\* SymTable(locals={}, parent=chain[1])
NewSymTable(chain) == <<EmptyLocals>> \o chain

\* a change that does not go to the parent
change_own_scope(chain, s, name, new_value) ==
    IF name \notin DOMAIN chain[s]
    THEN [ok |-> FALSE, chain |-> chain, found |-> FALSE, returned |-> 0]
    ELSE [ok |-> TRUE, chain |-> [chain EXCEPT ![s][name] = new_value],
          found |-> FALSE, returned |-> 0]

\* chain[s].add(name, value)
add(chain, s, name, value) ==
    IF name \in DOMAIN chain[s]
    THEN [ok |-> FALSE, chain |-> chain, found |-> FALSE, returned |-> 0]
    ELSE [ok |-> TRUE,
          chain |-> [chain EXCEPT ![s] = (name :> value) @@ chain[s]],
          found |-> FALSE, returned |-> 0]

RECURSIVE lookup(_, _, _)
\* chain[s].lookup(name)
lookup(chain, s, name) ==
    IF name \in DOMAIN chain[s]
    THEN [ok |-> TRUE, chain |-> chain, found |-> TRUE, returned |-> chain[s][name]]
    ELSE IF s < Len(chain) THEN lookup(chain, s + 1, name)
    ELSE [ok |-> TRUE, chain |-> chain, found |-> FALSE, returned |-> 0]

RECURSIVE change(_, _, _, _)
\* chain[s].change(name, new_value)
change(chain, s, name, new_value) ==
    IF name \notin DOMAIN chain[s]
    THEN IF s = Len(chain)
         THEN [ok |-> FALSE, chain |-> chain, found |-> FALSE, returned |-> 0]
         ELSE change(chain, s + 1, name, new_value)
    ELSE [ok |-> TRUE, chain |-> [chain EXCEPT ![s][name] = new_value],
          found |-> FALSE, returned |-> 0]

\* the longest chain, and the names and values of the calls
MaxScopes == 3
SymNames == {"a", "b"}
SymValues == {1, 2}

\* the call and what it did, for the properties
Called(method, s, name, value, out) ==
    /\ sym_call' = [method |-> method, scope |-> s, name |-> name, value |-> value,
                    before |-> sym_table, ok |-> out.ok, found |-> out.found,
                    returned |-> out.returned]
    /\ sym_table' = out.chain
    /\ UNCHANGED <<tokens, pc, result, checked, reserved_names, generated, eqL, eqR,
                   eqOut, instructions, assembly>>

\* SymTable(locals={}, parent=scope): a new scope whose parent is the
\* innermost scope of the chain
NewScope ==
    /\ pc = "scopes"
    /\ Len(sym_table) < MaxScopes
    /\ sym_table' = NewSymTable(sym_table)
    /\ sym_call' = NoCall
    /\ UNCHANGED <<tokens, pc, result, checked, reserved_names, generated, eqL, eqR,
                   eqOut, instructions, assembly>>

Add ==
    /\ pc = "scopes"
    /\ \E s \in 1..Len(sym_table), name \in SymNames, value \in SymValues :
          Called("add", s, name, value, add(sym_table, s, name, value))

Lookup ==
    /\ pc = "scopes"
    /\ \E s \in 1..Len(sym_table), name \in SymNames :
          Called("lookup", s, name, 0, lookup(sym_table, s, name))

Change ==
    /\ pc = "scopes"
    /\ \E s \in 1..Len(sym_table), name \in SymNames, value \in SymValues :
          Called("change", s, name, value, change(sym_table, s, name, value))

NextSymTable == NewScope \/ Add \/ Lookup \/ Change

\* SymTable(locals={}, parent=None)
InitSymTable ==
    /\ tokens = <<>>
    /\ pc = "scopes"
    /\ result = NotRun
    /\ checked = NotChecked
    /\ reserved_names = {}
    /\ generated = NotGenerated
    /\ eqL = ErrorNode
    /\ eqR = ErrorNode
    /\ eqOut = FALSE
    /\ instructions = <<>>
    /\ assembly = NotAssembled
    /\ sym_table = <<EmptyLocals>>
    /\ sym_call = NoCall

SpecSymTable == InitSymTable /\ [][NextSymTable]_vars

\* the scopes of the chain before the call, from the scope of the call
\* outwards, that bind the name
Binders ==
    {j \in sym_call.scope..Len(sym_call.before) :
        sym_call.name \in DOMAIN sym_call.before[j]}

\* the innermost of them
InnermostBinder == CHOOSE j \in Binders : \A k \in Binders : j <= k

\* C27: lookup returns the value of the innermost scope that binds the
\* name, or nothing when none does; add fails and changes nothing when
\* the scope of the call binds the name, else binds it in that scope and
\* leaves every other scope as it was; change replaces the value in the
\* innermost scope that binds the name and nowhere else, and fails and
\* changes nothing when no scope binds it
C27_SymTable ==
    LET before == sym_call.before
        s == sym_call.scope
        name == sym_call.name
    IN  /\ sym_call.method = "lookup" =>
             /\ sym_table = before
             /\ sym_call.ok
             /\ sym_call.found <=> Binders /= {}
             /\ Binders /= {} => sym_call.returned = before[InnermostBinder][name]
        /\ sym_call.method = "add" =>
             /\ sym_call.ok <=> name \notin DOMAIN before[s]
             /\ ~sym_call.ok => sym_table = before
             /\ sym_call.ok =>
                  /\ Len(sym_table) = Len(before)
                  /\ DOMAIN sym_table[s] = DOMAIN before[s] \cup {name}
                  /\ sym_table[s][name] = sym_call.value
                  /\ \A other \in DOMAIN before[s] : sym_table[s][other] = before[s][other]
                  /\ \A j \in 1..Len(before) : j /= s => sym_table[j] = before[j]
        /\ sym_call.method = "change" =>
             /\ sym_call.ok <=> Binders /= {}
             /\ ~sym_call.ok => sym_table = before
             /\ sym_call.ok =>
                  sym_table = [before EXCEPT ![InnermostBinder][name] = sym_call.value]

\* change, called on a scope that does not bind the name, has replaced the
\* value the parent held and left the different value of the grandparent
C27_Witness ==
    /\ sym_call.method = "change"
    /\ sym_call.ok
    /\ sym_call.scope = 1
    /\ Len(sym_table) = 3
    /\ sym_call.name \notin DOMAIN sym_table[1]
    /\ sym_call.name \in DOMAIN sym_call.before[2]
    /\ sym_call.name \in DOMAIN sym_call.before[3]
    /\ sym_table[2][sym_call.name] = sym_call.value
    /\ sym_call.before[2][sym_call.name] /= sym_call.value
    /\ sym_table[3][sym_call.name] /= sym_call.value

====
